---------------------------- MODULE Spec2Model ----------------------------
(***************************************************************************)
(* Model of the Stundenapp workbook writer (src/excel_io.py): the layout   *)
(* resolver, the date row locator, the sheet router, the cell writer and   *)
(* the open / write / save / close cycle of write_range.                   *)
(*                                                                         *)
(* Text is a sequence of one-character strings, so that strip() and        *)
(* lower() are computed.  A date is its proleptic Gregorian ordinal        *)
(* (date.toordinal()).  A cell value is a record [k, s, n]: k is the       *)
(* Python type, s the text of a str, n the number (hours in tenths for a   *)
(* float, ordinal for a date, ordinal * 24 + hour for a datetime).         *)
(***************************************************************************)
EXTENDS Integers, Sequences, FiniteSets, TLC

VARIABLES
    disk,      \* the workbook file at self.file_path (sheet name -> sheet)
    book0,     \* the workbook file as it was before the first operation
    pc,        \* position of the running public operation
    call,      \* arguments of the running write_range call
    wb,        \* the workbook object opened by the running operation
    tries,     \* iterations of the retry loop of _open_workbook done so far
    cur,       \* loop variable cur of write_range
    ok,        \* local ok of write_range
    fail,      \* local fail of write_range
    exc,       \* the exception propagating out of the running operation
    ret,       \* what the finished operation handed to its caller
    trail,     \* what the running operation did so far (open, day, save, close)
    disk0,     \* the workbook file when the running operation was called
    first,     \* outcome of the first of two identical write_range calls
    ncalls,    \* number of public operations started so far
    probe,     \* input and result of the last pure lookup that was evaluated
    retries,   \* self.retries of the ExcelIO object
    last_err,  \* local last_err of _open_workbook
    form       \* self.state of the App (src/app.py)

vars == <<disk, book0, pc, call, wb, tries, cur, ok, fail, exc, ret, trail,
          disk0, first, ncalls, probe, retries, last_err, form>>

-----------------------------------------------------------------------------
(* Excel layout constants *)

SHEET_EINGABE == "Anpassung"
COL_EMP == 13
COL_PROJ == 14
COL_ABS == 16
FIRST_ROW_LIST == 4
HEADER_ROW == 3
SUBHEADER_ROW == 4
FIRST_EMP_COL == 6
DATE_FIRST_ROW == 5
DATE_COL == 3
EMPTY_STREAK_LIMIT == 15
DEFAULT_RETRIES == 3

-----------------------------------------------------------------------------
(* Text *)

Whitespace == {" ", "\t"}

UpperLetters == <<"A","B","C","D","E","F","G","H","I","J","K","L","M",
                  "N","O","P","Q","R","S","T","U","V","W","X","Y","Z">>
LowerLetters == <<"a","b","c","d","e","f","g","h","i","j","k","l","m",
                  "n","o","p","q","r","s","t","u","v","w","x","y","z">>

LowerChar(ch) ==
    IF \E i \in 1..Len(UpperLetters) : UpperLetters[i] = ch
    THEN LowerLetters[CHOOSE i \in 1..Len(UpperLetters) : UpperLetters[i] = ch]
    ELSE ch

Lower(s) == [i \in 1..Len(s) |-> LowerChar(s[i])]

RECURSIVE LStrip(_)
LStrip(s) ==
    IF s # <<>> /\ Head(s) \in Whitespace THEN LStrip(Tail(s)) ELSE s

RECURSIVE RStrip(_)
RStrip(s) ==
    IF s # <<>> /\ s[Len(s)] \in Whitespace
    THEN RStrip(SubSeq(s, 1, Len(s) - 1))
    ELSE s

Strip(s) == RStrip(LStrip(s))

-----------------------------------------------------------------------------
(* Cell values *)

None == [k |-> "none", s |-> <<>>, n |-> 0]
Str(s) == [k |-> "str", s |-> s, n |-> 0]
PyFloat(tenths) == [k |-> "float", s |-> <<>>, n |-> tenths]
PyInt(i) == [k |-> "int", s |-> <<>>, n |-> i]
PyDate(ordinal) == [k |-> "date", s |-> <<>>, n |-> ordinal]
PyDateTime(ordinal, hour) == [k |-> "datetime", s |-> <<>>, n |-> ordinal * 24 + hour]

\* (s or "").strip() applied to an argument that is a str or None
StripOrEmpty(v) == IF v.k = "str" THEN Strip(v.s) ELSE <<>>

\* str(v).strip() if v is not None else ""   (text cells; str() of a str is itself)
CellText(v) == IF v.k = "none" THEN <<>> ELSE Strip(v.s)

\* str(v) if v is not None else ""
StrOrEmpty(v) == IF v.k = "none" THEN <<>> ELSE v.s

\* variant: the key is trimmed and keeps its case
NormalizeKey_KeepCase(s) == Strip(s)

NormalizeKey(s) == Lower(Strip(s))

\* float(hrs): defined on int and float, raises on None
CanFloat(v) == v.k \in {"float", "int"}
\* variant: an int is taken as tenths of an hour
ToFloat_Raw(v) == IF v.k = "int" THEN PyFloat(v.n) ELSE v

ToFloat(v) == IF v.k = "int" THEN PyFloat(v.n * 10) ELSE v

\* variant: a numeric zero counts as filled
IsFilled_ZeroCounts(v) ==
    /\ v.k # "none"
    /\ ~(v.k = "str" /\ v.s = <<>>)

\* v not in (None, "", 0)
IsFilled(v) ==
    /\ v.k # "none"
    /\ ~(v.k = "str" /\ v.s = <<>>)
    /\ ~(v.k \in {"int", "float"} /\ v.n = 0)

NoDate == 0

\* last_err = None
NoError == "None"

AsDate(v) ==
    IF v.k = "none" THEN NoDate
    ELSE IF v.k = "datetime" THEN v.n \div 24
    ELSE IF v.k = "date" THEN v.n
    ELSE NoDate

-----------------------------------------------------------------------------
(* Calendar: datetime.date as used by the writer *)

IsLeap(y) == y % 4 = 0 /\ (y % 100 # 0 \/ y % 400 = 0)

DaysInMonth(y, m) ==
    IF m = 2 THEN (IF IsLeap(y) THEN 29 ELSE 28)
    ELSE IF m \in {4, 6, 9, 11} THEN 30 ELSE 31

DaysBeforeYear(y) ==
    (y - 1) * 365 + (y - 1) \div 4 - (y - 1) \div 100 + (y - 1) \div 400

RECURSIVE DaysBeforeMonth(_, _)
DaysBeforeMonth(y, m) ==
    IF m = 1 THEN 0 ELSE DaysBeforeMonth(y, m - 1) + DaysInMonth(y, m - 1)

ToOrdinal(y, m, d) == DaysBeforeYear(y) + DaysBeforeMonth(y, m) + d

YearOf(o) ==
    CHOOSE y \in 2000..2100 : DaysBeforeYear(y) < o /\ o <= DaysBeforeYear(y + 1)

MonthOf(o) ==
    LET y == YearOf(o)
        n == o - DaysBeforeYear(y)
    IN  CHOOSE m \in 1..12 :
            DaysBeforeMonth(y, m) < n /\ n <= DaysBeforeMonth(y, m) + DaysInMonth(y, m)

Weekday(o) == (o + 6) % 7

MONTH_DE ==
    <<"Januar", "Februar", "März", "April", "Mai", "Juni", "Juli",
      "August", "September", "Oktober", "November", "Dezember">>

month_sheet_name(dt) == MONTH_DE[MonthOf(dt)]

-----------------------------------------------------------------------------
(* Worksheets.  A sheet is [cells, merges]: cells maps <<row, column>> to  *)
(* the value of every cell the sheet holds, merges is the set of merged    *)
(* ranges [min_row, max_row, min_col, max_col].  A workbook maps each of   *)
(* its sheet names to a sheet.                                             *)

CellValue(ws, r, c) ==
    IF <<r, c>> \in DOMAIN ws.cells THEN ws.cells[<<r, c>>] ELSE None

SetCell(ws, r, c, v) ==
    [ws EXCEPT !.cells =
        [x \in (DOMAIN ws.cells) \cup {<<r, c>>} |->
            IF x = <<r, c>> THEN v ELSE ws.cells[x]]]

SetMax(S) == CHOOSE x \in S : \A y \in S : y <= x

\* ws.max_row, ws.max_column: the largest row and column that hold a cell
MaxRow(ws) ==
    IF DOMAIN ws.cells = {} THEN 1 ELSE SetMax({x[1] : x \in DOMAIN ws.cells})

MaxColumn(ws) ==
    IF DOMAIN ws.cells = {} THEN 1 ELSE SetMax({x[2] : x \in DOMAIN ws.cells})

NoSheet == "<none>"

\* variant: the sheet "Maerz" stands in for any month that has no sheet
GetMonthSheet_AliasForAll(book, month) ==
    LET nm == month_sheet_name(month)
    IN  IF nm \in DOMAIN book THEN nm
        ELSE IF "Maerz" \in DOMAIN book THEN "Maerz"
        ELSE NoSheet

GetMonthSheet(book, month) ==
    LET nm == month_sheet_name(month)
    IN  IF nm \in DOMAIN book THEN nm
        ELSE IF nm = "März" /\ "Maerz" \in DOMAIN book THEN "Maerz"
        ELSE NoSheet

\* variant: the scan runs to the last row and returns the last match
RECURSIVE FindDateRowFrom_LastMatch(_, _, _, _)
FindDateRowFrom_LastMatch(ws, target, r, max_row) ==
    IF r > max_row THEN 0
    ELSE LET dv == AsDate(CellValue(ws, r, DATE_COL))
             later == FindDateRowFrom_LastMatch(ws, target, r + 1, max_row)
         IN  IF later # 0 THEN later
             ELSE IF dv # NoDate /\ dv = target THEN r
             ELSE 0

RECURSIVE FindDateRowFrom(_, _, _, _)
FindDateRowFrom(ws, target, r, max_row) ==
    IF r > max_row THEN 0
    ELSE LET dv == AsDate(CellValue(ws, r, DATE_COL))
         IN  IF dv # NoDate /\ dv = target THEN r
             ELSE FindDateRowFrom(ws, target, r + 1, max_row)

FindDateRow(ws, dt) == FindDateRowFrom(ws, dt, DATE_FIRST_ROW, MaxRow(ws))

NoBlock == [start_col |-> 0, width |-> 0]

AbsCol(block) == block.start_col + block.width - 1

\* <<name, width, next_col>> of the header cell at (row, col)
HeaderCellValueAndWidth(ws, row, col) ==
    LET hit == {rng \in ws.merges :
                    /\ rng.min_row <= row /\ row <= rng.max_row
                    /\ rng.min_col <= col /\ col <= rng.max_col}
    IN  IF hit # {}
        THEN LET merged_range == CHOOSE rng \in hit : TRUE
                 val == CellValue(ws, merged_range.min_row, merged_range.min_col)
                 width == merged_range.max_col - merged_range.min_col + 1
                 start_col == merged_range.min_col
             IN  <<CellText(val), width, start_col + width>>
        ELSE <<CellText(CellValue(ws, row, col)), 1, col + 1>>

\* variant: the scan stops one empty header cell late
RECURSIVE FindEmployeeBlockFrom_OneMore(_, _, _, _, _)
FindEmployeeBlockFrom_OneMore(ws, emp_key, c, empty_streak, max_c) ==
    IF c > max_c THEN NoBlock
    ELSE LET h == HeaderCellValueAndWidth(ws, HEADER_ROW, c)
             name_key == NormalizeKey(h[1])
         IN  IF name_key # <<>>
             THEN IF name_key = emp_key
                  THEN [start_col |-> c, width |-> h[2]]
                  ELSE FindEmployeeBlockFrom_OneMore(ws, emp_key, h[3], 0, max_c)
             ELSE IF empty_streak + 1 > EMPTY_STREAK_LIMIT
                  THEN NoBlock
                  ELSE FindEmployeeBlockFrom_OneMore(ws, emp_key, h[3], empty_streak + 1,
                                                     max_c)

RECURSIVE FindEmployeeBlockFrom(_, _, _, _, _)
FindEmployeeBlockFrom(ws, emp_key, c, empty_streak, max_c) ==
    IF c > max_c THEN NoBlock
    ELSE LET h == HeaderCellValueAndWidth(ws, HEADER_ROW, c)
             name_key == NormalizeKey(h[1])
         IN  IF name_key # <<>>
             THEN IF name_key = emp_key
                  THEN [start_col |-> c, width |-> h[2]]
                  ELSE FindEmployeeBlockFrom(ws, emp_key, h[3], 0, max_c)
             ELSE IF empty_streak + 1 >= EMPTY_STREAK_LIMIT
                  THEN NoBlock
                  ELSE FindEmployeeBlockFrom(ws, emp_key, h[3], empty_streak + 1, max_c)

FindEmployeeBlock(ws, emp) ==
    FindEmployeeBlockFrom(ws, NormalizeKey(emp), FIRST_EMP_COL, 0, MaxColumn(ws))

\* variant: the absence column is examined too
RECURSIVE FindProjectColFrom_WholeBlock(_, _, _, _)
FindProjectColFrom_WholeBlock(ws, block, proj_key, c) ==
    IF c >= block.start_col + block.width THEN 0
    ELSE IF NormalizeKey(StrOrEmpty(CellValue(ws, SUBHEADER_ROW, c))) = proj_key
         THEN c
         ELSE FindProjectColFrom_WholeBlock(ws, block, proj_key, c + 1)

RECURSIVE FindProjectColFrom(_, _, _, _)
FindProjectColFrom(ws, block, proj_key, c) ==
    IF c >= block.start_col + block.width - 1 THEN 0
    ELSE IF NormalizeKey(StrOrEmpty(CellValue(ws, SUBHEADER_ROW, c))) = proj_key
         THEN c
         ELSE FindProjectColFrom(ws, block, proj_key, c + 1)

\* variant: a block of one column is searched as if that column were a project column
FindProjectCol_SingleColumn(ws, block, proj) ==
    FindProjectColFrom(ws, [block EXCEPT !.width = IF @ = 1 THEN 2 ELSE @],
                       NormalizeKey(proj), block.start_col)

FindProjectCol(ws, block, proj) ==
    FindProjectColFrom(ws, block, NormalizeKey(proj), block.start_col)

-----------------------------------------------------------------------------
(* Cell writer *)

RECURSIVE ClearCells(_, _, _, _)
ClearCells(ws, row, c, stop) ==
    IF c >= stop THEN ws
    ELSE ClearCells(SetCell(ws, row, c, None), row, c + 1, stop)

\* variant: the clearing loop starts one column late
WriteAbsence_SkipFirst(ws, day_row, block, abs_type) ==
    ClearCells(SetCell(ws, day_row, AbsCol(block), Str(abs_type)),
               day_row, block.start_col + 1, AbsCol(block))

\* mode == "ABS": the absence column, then every project column of the block
WriteAbsence(ws, day_row, block, abs_type) ==
    ClearCells(SetCell(ws, day_row, AbsCol(block), Str(abs_type)),
               day_row, block.start_col, AbsCol(block))

\* variant: the hours are added to the hours the cell holds
WriteProject_Accumulate(ws, day_row, block, proj_col, hrs) ==
    LET old == CellValue(ws, day_row, proj_col)
        sum == IF old.k = "float" THEN PyFloat(old.n + ToFloat(hrs).n) ELSE ToFloat(hrs)
    IN  SetCell(SetCell(ws, day_row, proj_col, sum), day_row, AbsCol(block), None)

\* variant: the absence column is left as it is
WriteProject_KeepAbsence(ws, day_row, block, proj_col, hrs) ==
    SetCell(ws, day_row, proj_col, ToFloat(hrs))

\* variant: the other project columns of the block are cleared as well
WriteProject_ClearsOthers(ws, day_row, block, proj_col, hrs) ==
    SetCell(ClearCells(ws, day_row, block.start_col, block.start_col + block.width),
            day_row, proj_col, ToFloat(hrs))

\* the hours into the project column, then the absence column cleared
WriteProject(ws, day_row, block, proj_col, hrs) ==
    SetCell(SetCell(ws, day_row, proj_col, ToFloat(hrs)),
            day_row, AbsCol(block), None)

Outcome(success, raised, book) ==
    [success |-> success, raised |-> raised, book |-> book]

\* variant: a failed lookup raises instead of returning False
Unresolved_Raises(book) == Outcome(FALSE, TRUE, book)

\* return False: nothing was written
Unresolved(book) == Outcome(FALSE, FALSE, book)

\* variant: the absence column is cleared before the project column is looked up
WriteOneDay_ClearsFirst(book, dt, emp, mode, proj, hrs, abs_type) ==
    LET sn == GetMonthSheet(book, dt)
    IN  IF sn = NoSheet THEN Unresolved(book)
        ELSE
        LET ws == book[sn]
            day_row == FindDateRow(ws, dt)
        IN  IF day_row = 0 THEN Unresolved(book)
            ELSE
            LET block == FindEmployeeBlock(ws, emp)
            IN  IF block = NoBlock THEN Unresolved(book)
                ELSE IF mode = "ABS"
                THEN Outcome(TRUE, FALSE,
                        [book EXCEPT ![sn] = WriteAbsence(ws, day_row, block, abs_type)])
                ELSE
                LET proj_col == FindProjectCol(ws, block, proj)
                    cleared == [book EXCEPT ![sn] = SetCell(ws, day_row, AbsCol(block), None)]
                IN  IF proj_col = 0 THEN Unresolved(cleared)
                    ELSE IF ~CanFloat(hrs) THEN Outcome(FALSE, TRUE, book)
                    ELSE Outcome(TRUE, FALSE,
                            [book EXCEPT ![sn] =
                                WriteProject(ws, day_row, block, proj_col, hrs)])

\* _write_one_day: the returned bool, whether it raised, and the workbook after it
WriteOneDay(book, dt, emp, mode, proj, hrs, abs_type) ==
    LET sn == GetMonthSheet(book, dt)
    IN  IF sn = NoSheet THEN Unresolved(book)
        ELSE
        LET ws == book[sn]
            day_row == FindDateRow(ws, dt)
        IN  IF day_row = 0 THEN Unresolved(book)
            ELSE
            LET block == FindEmployeeBlock(ws, emp)
            IN  IF block = NoBlock THEN Unresolved(book)
                ELSE IF mode = "ABS"
                THEN Outcome(TRUE, FALSE,
                        [book EXCEPT ![sn] = WriteAbsence(ws, day_row, block, abs_type)])
                ELSE
                LET proj_col == FindProjectCol(ws, block, proj)
                IN  IF proj_col = 0 THEN Unresolved(book)
                    ELSE IF ~CanFloat(hrs) THEN Outcome(FALSE, TRUE, book)
                    ELSE Outcome(TRUE, FALSE,
                            [book EXCEPT ![sn] =
                                WriteProject(ws, day_row, block, proj_col, hrs)])

\* what wb.save leaves in the file: cells without a value are not stored
SaveImage(book) ==
    [sn \in DOMAIN book |->
        [book[sn] EXCEPT !.cells =
            [x \in {y \in DOMAIN book[sn].cells : book[sn].cells[y] # None} |->
                book[sn].cells[x]]]]

-----------------------------------------------------------------------------
(* The workbooks the operations are run on.  Month sheets follow the       *)
(* layout of the workbook: header row 3 with one (merged) cell per         *)
(* employee from column 6 on, project labels in row 4, dates in column 3   *)
(* from row 5 on.                                                          *)

Cells(triples) ==
    [x \in {<<t[1], t[2]>> : t \in triples} |->
        (CHOOSE t \in triples : t[1] = x[1] /\ t[2] = x[2])[3]]

Merge(r1, r2, c1, c2) ==
    [min_row |-> r1, max_row |-> r2, min_col |-> c1, max_col |-> c2]

D(m, d) == ToOrdinal(2024, m, d)

\* dates as date cells (asDateTime = FALSE) or as datetime cells with a time of day
DateCell(o, asDateTime) == IF asDateTime THEN PyDateTime(o, 8) ELSE PyDate(o)

MarchHeader ==
    { <<HEADER_ROW, 6, Str(<<"M","a","x"," ">>)>>,
      <<HEADER_ROW, 9, Str(<<"E","V","A">>)>>,
      <<SUBHEADER_ROW, 6, Str(<<"M","O","I","A">>)>>,
      <<SUBHEADER_ROW, 7, Str(<<"D","i","E"," ">>)>>,
      <<SUBHEADER_ROW, 8, Str(<<"A","b","w">>)>>,
      <<SUBHEADER_ROW, 9, Str(<<"A","b","w">>)>> }

\* rows 5..10 hold 1 to 6 March, row 11 holds 1 March a second time
MarchDates(asDateTime, withFirst) ==
    { <<DATE_FIRST_ROW + i, DATE_COL, DateCell(D(3, 1) + i, asDateTime)>> : i \in 1..5 }
    \cup (IF withFirst
          THEN { <<DATE_FIRST_ROW, DATE_COL, DateCell(D(3, 1), asDateTime)>>,
                 <<DATE_FIRST_ROW + 6, DATE_COL, DateCell(D(3, 1), asDateTime)>> }
          ELSE { <<DATE_FIRST_ROW, DATE_COL, Str(<<"n","/","a">>)>> })

MarchSheet(asDateTime, withFirst, fill) ==
    [cells |-> Cells(MarchHeader \cup MarchDates(asDateTime, withFirst) \cup fill),
     merges |-> {Merge(HEADER_ROW, HEADER_ROW, 6, 8)}]

\* February: only Max, with one project column and a header merged over rows 2..3
\* (its text is in the top left cell), rows 5..7 hold 27 to 29 February
FebruarySheet ==
    [cells |-> Cells(
        { <<HEADER_ROW - 1, 6, Str(<<"M","A","X">>)>>,
          <<SUBHEADER_ROW, 6, Str(<<"M","o","i","a">>)>>,
          <<SUBHEADER_ROW, 7, Str(<<"A","b","w">>)>> }
        \cup { <<DATE_FIRST_ROW + i, DATE_COL, PyDate(D(2, 27) + i)>> : i \in 0..2 }),
     merges |-> {Merge(2, HEADER_ROW, 6, 7)}]

\* cells that hold a project value and an absence in the same block and row
FillBoth ==
    { <<DATE_FIRST_ROW, 6, PyFloat(35)>>,
      <<DATE_FIRST_ROW, 8, Str(<<"K">>)>>,
      <<DATE_FIRST_ROW + 1, 7, PyFloat(35)>>,
      <<DATE_FIRST_ROW + 1, 9, Str(<<"X">>)>> }

\* cells that hold either project values or an absence
FillOne ==
    { <<DATE_FIRST_ROW + 1, 6, PyFloat(35)>>,
      <<DATE_FIRST_ROW + 1, 7, PyFloat(35)>>,
      <<DATE_FIRST_ROW + 2, 8, Str(<<"U">>)>>,
      <<DATE_FIRST_ROW + 3, 8, Str(<<"K">>)>>,
      <<DATE_FIRST_ROW + 3, 9, Str(<<"K">>)>> }

\* dates out of order, one of them twice, one of another month, one of another
\* year, one as a datetime and one cell that holds no date
ScanDates ==
    { <<DATE_FIRST_ROW, DATE_COL, PyDate(D(3, 5))>>,
      <<DATE_FIRST_ROW + 1, DATE_COL, PyDateTime(D(3, 4), 8)>>,
      <<DATE_FIRST_ROW + 2, DATE_COL, PyDate(D(3, 5))>>,
      <<DATE_FIRST_ROW + 3, DATE_COL, PyDate(D(2, 29))>>,
      <<DATE_FIRST_ROW + 4, DATE_COL, PyDate(ToOrdinal(2025, 3, 4))>>,
      <<DATE_FIRST_ROW + 5, DATE_COL, Str(<<"n","/","a">>)>> }

BookA == [sn \in {"Februar", "März"} |->
            IF sn = "Februar" THEN FebruarySheet ELSE MarchSheet(FALSE, TRUE, {})]

BookB == [sn \in {"Maerz"} |-> MarchSheet(TRUE, TRUE, FillBoth)]

BookC == [sn \in {"Februar", "März"} |->
            IF sn = "Februar" THEN FebruarySheet ELSE MarchSheet(FALSE, FALSE, FillOne)]

Books == {BookA, BookB, BookC}

NoBook == [sn \in {} |-> 0]

-----------------------------------------------------------------------------
(* Arguments of write_range *)

MaxCalls == 2
WindowDays == 4
WeekWindowDays == 9

EmpArgs == { Str(<<" ","m","a","x">>), Str(<<"E","v","a">>) }
ProjArgs == { Str(<<"m","o","i","a"," ">>), Str(<<"D","i","E">>) }
HrsArgs == { PyFloat(35), PyInt(7), None }
AbsArgs == { Str(<<" ","U">>), Str(<<>>) }

\* the first date of the date window: Thursday 29 February 2024
WindowStart == D(2, 29)
\* the first date of the window of the whole-week runs: Tuesday 27 February 2024
WeekWindowStart == D(2, 27)

CallArgs(lo, days) ==
    { [emp |-> e, mode |-> "PROJ", proj |-> p, hrs |-> h, abs_type |-> Str(<<>>),
       d_from |-> a, d_to |-> b] :
        e \in EmpArgs, p \in ProjArgs, h \in HrsArgs,
        a \in lo..(lo + days - 1), b \in lo..(lo + days - 1) }
    \cup
    { [emp |-> e, mode |-> "ABS", proj |-> Str(<<>>), hrs |-> PyFloat(0), abs_type |-> t,
       d_from |-> a, d_to |-> b] :
        e \in EmpArgs, t \in AbsArgs,
        a \in lo..(lo + days - 1), b \in lo..(lo + days - 1) }

NoCall ==
    [emp |-> None, mode |-> "", proj |-> None, hrs |-> None, abs_type |-> None,
     d_from |-> NoDate, d_to |-> NoDate]

\* State() of the form: nothing picked, the calendar on March 2024
State0 ==
    [emp |-> <<>>, mode |-> "", proj |-> <<>>, hrs |-> None, abs_type |-> <<>>,
     d_from |-> NoDate, d_to |-> NoDate, month |-> D(3, 1), filled_days |-> {}]

\* the locals of write_range after its first lines
EmpOf(c) == StripOrEmpty(c.emp)
ProjOf(c) == StripOrEmpty(c.proj)
AbsTypeOf(c) == StripOrEmpty(c.abs_type)
DFrom(c) == IF c.d_to < c.d_from THEN c.d_to ELSE c.d_from
DTo(c) == IF c.d_to < c.d_from THEN c.d_from ELSE c.d_to

\* variant: Saturday counts as a working day
IsWorkday_WithSaturday(dt) == Weekday(dt) <= 5

IsWorkday(dt) == Weekday(dt) <= 4

Ev(op, dt, res) == [op |-> op, dt |-> dt, res |-> res]

NoFirst == [set |-> FALSE, disk |-> NoBook, ok |-> 0, fail |-> 0]
\* what an operation hands to its caller: counts, lists, or an exception
NoRet == [kind |-> "none", ok |-> 0, fail |-> 0, lists |-> <<>>]
RetCounts(n_ok, n_fail) == [kind |-> "value", ok |-> n_ok, fail |-> n_fail, lists |-> <<>>]
RetLists(l) == [kind |-> "lists", ok |-> 0, fail |-> 0, lists |-> l]
RetRaise == [kind |-> "raise", ok |-> 0, fail |-> 0, lists |-> <<>>]

-----------------------------------------------------------------------------
(* write_range, step by step *)

Init ==
    /\ disk \in Books
    /\ book0 = disk
    /\ pc = "idle"
    /\ call = NoCall
    /\ wb = NoBook
    /\ tries = 0
    /\ cur = NoDate
    /\ ok = 0
    /\ fail = 0
    /\ exc = "none"
    /\ ret = NoRet
    /\ trail = <<>>
    /\ disk0 = disk
    /\ first = NoFirst
    /\ ncalls = 0
    /\ probe = <<>>
    /\ retries = DEFAULT_RETRIES
    /\ last_err = NoError
    /\ form = State0

\* a caller invokes write_range
Enter(c) ==
    /\ call' = c
    /\ pc' = "open"
    /\ wb' = NoBook
    /\ tries' = 0
    /\ cur' = NoDate
    /\ ok' = 0
    /\ fail' = 0
    /\ exc' = "none"
    /\ ret' = NoRet
    /\ trail' = <<>>
    /\ disk0' = disk

WriteRangeCall(lo, days, limit) ==
    /\ pc = "idle"
    /\ ncalls < limit
    /\ \E c \in CallArgs(lo, days) : Enter(c)
    /\ ncalls' = ncalls + 1
    /\ first' = NoFirst
    /\ UNCHANGED <<form, disk, book0, probe, retries, last_err>>

\* one iteration of the retry loop of _open_workbook: load_workbook returns
OpenSucceeds ==
    /\ pc = "open"
    /\ tries < retries
    /\ wb' = disk
    /\ tries' = 0
    /\ ok' = 0
    /\ fail' = 0
    /\ cur' = DFrom(call)
    /\ trail' = Append(trail, Ev("open", NoDate, ""))
    /\ pc' = "loop"
    /\ UNCHANGED <<form, disk, book0, call, exc, ret, disk0, first, ncalls, probe, retries, last_err>>

\* one iteration of the retry loop: load_workbook raises; after the last one
\* the RuntimeError leaves write_range
OpenFails ==
    /\ pc = "open"
    /\ tries < retries
    /\ IF tries + 1 < retries
       THEN /\ tries' = tries + 1
            /\ UNCHANGED <<pc, exc, ret>>
       ELSE /\ tries' = 0
            /\ exc' = "open"
            /\ ret' = RetRaise
            /\ pc' = "done"
    /\ UNCHANGED <<form, disk, book0, call, wb, cur, ok, fail, trail, disk0, first, ncalls, probe, retries, last_err>>

\* one iteration of the while loop
DayStep ==
    /\ pc = "loop"
    /\ cur <= DTo(call)
    /\ IF IsWorkday(cur)
       THEN LET r == WriteOneDay(wb, cur, EmpOf(call), call.mode, ProjOf(call),
                                 call.hrs, AbsTypeOf(call))
            IN  IF r.raised
                THEN /\ exc' = "day"
                     /\ pc' = "close"
                     /\ trail' = Append(trail, Ev("day", cur, "raise"))
                     /\ UNCHANGED <<wb, ok, fail, cur>>
                ELSE /\ wb' = r.book
                     /\ ok' = IF r.success THEN ok + 1 ELSE ok
                     /\ fail' = IF r.success THEN fail ELSE fail + 1
                     /\ cur' = cur + 1
                     /\ trail' = Append(trail,
                            Ev("day", cur, IF r.success THEN "ok" ELSE "fail"))
                     /\ UNCHANGED <<exc, pc>>
       ELSE /\ cur' = cur + 1
            /\ UNCHANGED <<wb, ok, fail, exc, pc, trail>>
    /\ UNCHANGED <<form, disk, book0, call, tries, ret, disk0, first, ncalls, probe, retries, last_err>>

\* variant: the workbook is saved only if a day was written
SaveSucceeds_OnlyIfWritten ==
    /\ pc = "loop"
    /\ cur > DTo(call)
    /\ disk' = IF ok > 0 THEN SaveImage(wb) ELSE disk
    /\ trail' = IF ok > 0 THEN Append(trail, Ev("save", NoDate, "")) ELSE trail
    /\ pc' = "close"
    /\ UNCHANGED <<form, book0, call, wb, tries, cur, ok, fail, exc, ret, disk0, first, ncalls, probe, retries, last_err>>

\* wb.save(self.file_path) after the loop
SaveSucceeds ==
    /\ pc = "loop"
    /\ cur > DTo(call)
    /\ disk' = SaveImage(wb)
    /\ trail' = Append(trail, Ev("save", NoDate, ""))
    /\ pc' = "close"
    /\ UNCHANGED <<form, book0, call, wb, tries, cur, ok, fail, exc, ret, disk0, first, ncalls, probe, retries, last_err>>

\* wb.save raises (the file cannot be written): the file keeps its content
SaveFails ==
    /\ pc = "loop"
    /\ cur > DTo(call)
    /\ exc' = "save"
    /\ trail' = Append(trail, Ev("savefail", NoDate, ""))
    /\ pc' = "close"
    /\ UNCHANGED <<form, disk, book0, call, wb, tries, cur, ok, fail, ret, disk0, first, ncalls, probe, retries, last_err>>

\* variant: the finally block saves before it closes
Close_SavesInFinally ==
    /\ pc = "close"
    /\ wb' = NoBook
    /\ disk' = IF exc = "none" THEN disk ELSE SaveImage(wb)
    /\ trail' = IF exc = "none" THEN Append(trail, Ev("close", NoDate, ""))
                ELSE trail \o <<Ev("save", NoDate, ""), Ev("close", NoDate, "")>>
    /\ ret' = IF exc = "none" THEN RetCounts(ok, fail)
              ELSE RetRaise
    /\ pc' = "done"
    /\ UNCHANGED <<form, book0, call, tries, cur, ok, fail, exc, disk0, first, ncalls, probe, retries, last_err>>

\* finally: wb.close(), then the return or the propagating exception
Close ==
    /\ pc = "close"
    /\ wb' = NoBook
    /\ trail' = Append(trail, Ev("close", NoDate, ""))
    /\ ret' = IF exc = "none" THEN RetCounts(ok, fail)
              ELSE RetRaise
    /\ pc' = "done"
    /\ UNCHANGED <<form, disk, book0, call, tries, cur, ok, fail, exc, disk0, first, ncalls, probe, retries, last_err>>

\* the caller calls write_range again with the same arguments
CallAgain ==
    /\ pc = "done"
    /\ ret.kind = "value"
    /\ ~first.set
    /\ first' = [set |-> TRUE, disk |-> disk, ok |-> ret.ok, fail |-> ret.fail]
    /\ Enter(call)
    /\ UNCHANGED <<form, disk, book0, ncalls, probe, retries, last_err>>

\* the caller goes on
Return ==
    /\ pc = "done"
    /\ pc' = "idle"
    /\ call' = NoCall
    /\ wb' = NoBook
    /\ tries' = 0
    /\ cur' = NoDate
    /\ ok' = 0
    /\ fail' = 0
    /\ exc' = "none"
    /\ ret' = NoRet
    /\ trail' = <<>>
    /\ disk0' = disk
    /\ first' = NoFirst
    /\ UNCHANGED <<form, disk, book0, ncalls, probe, retries, last_err>>

Run ==
    \/ OpenSucceeds
    \/ OpenFails
    \/ DayStep
    \/ SaveSucceeds
    \/ SaveFails
    \/ Close
    \/ CallAgain
    \/ Return

Next ==
    \/ WriteRangeCall(WindowStart, WindowDays, MaxCalls)
    \/ Run

Spec == Init /\ [][Next]_vars

\* runs over a window of more than a week, one call (and its repetition)
NextWeek ==
    \/ WriteRangeCall(WeekWindowStart, WeekWindowDays, 1)
    \/ Run

SpecWeek == Init /\ [][NextWeek]_vars

-----------------------------------------------------------------------------
(* Properties of the cell writer *)

LastEv == trail[Len(trail)]

\* the last thing the running write_range did was a _write_one_day that returned True
JustWrote ==
    /\ pc \in {"loop", "close"}
    /\ trail # <<>>
    /\ LastEv.op = "day"
    /\ LastEv.res = "ok"

\* the blocks of the employees in the header of a sheet
EmpBlocks(ws) == {FindEmployeeBlock(ws, StripOrEmpty(e)) : e \in EmpArgs} \ {NoBlock}

DateRows(ws) == DATE_FIRST_ROW..MaxRow(ws)

ProjectFilled(ws, b, r) ==
    \E c \in b.start_col..(b.start_col + b.width - 2) : IsFilled(CellValue(ws, r, c))

AbsenceFilled(ws, b, r) == IsFilled(CellValue(ws, r, b.start_col + b.width - 1))

ExclusiveAt(ws, b, r) == ~(ProjectFilled(ws, b, r) /\ AbsenceFilled(ws, b, r))

SameBlockRow(ws1, ws2, b, r) ==
    \A c \in b.start_col..(b.start_col + b.width - 1) :
        CellValue(ws1, r, c) = CellValue(ws2, r, c)

\* every block and date row that was exclusive at the start, or that was written
\* since, holds project values or an absence, never both
MutualExclusion(book) ==
    \A sn \in DOMAIN book :
        \A b \in EmpBlocks(book0[sn]), r \in DateRows(book0[sn]) :
            (ExclusiveAt(book0[sn], b, r) \/ ~SameBlockRow(book0[sn], book[sn], b, r))
                => ExclusiveAt(book[sn], b, r)

\* C1: after any sequence of writes, in project and absence mode, every employee
\* block and date row that was written (and every one that started exclusive) has
\* at most one of: some project column filled, the absence column filled.
C1_MutualExclusion ==
    /\ MutualExclusion(disk)
    /\ pc \in {"loop", "close"} => MutualExclusion(wb)

\* a row that held both a project value and an absence was written and saved
C1_Witness ==
    \E sn \in DOMAIN disk :
        \E b \in EmpBlocks(book0[sn]), r \in DateRows(book0[sn]) :
            /\ ~ExclusiveAt(book0[sn], b, r)
            /\ ExclusiveAt(disk[sn], b, r)
            /\ ProjectFilled(disk[sn], b, r) \/ AbsenceFilled(disk[sn], b, r)

\* the sheet, row and block the last _write_one_day resolved
LastSheet == GetMonthSheet(wb, LastEv.dt)
LastRow == FindDateRow(wb[LastSheet], LastEv.dt)
LastBlock == FindEmployeeBlock(wb[LastSheet], EmpOf(call))

\* C2: a successful write_one_day in absence mode leaves, at the resolved row, the
\* absence column (start_col + width - 1) equal to the written absence string and
\* every project column of the block empty.
C2_AbsenceWrite ==
    (JustWrote /\ call.mode = "ABS") =>
        /\ CellValue(wb[LastSheet], LastRow, LastBlock.start_col + LastBlock.width - 1)
              = Str(AbsTypeOf(call))
        /\ \A c \in LastBlock.start_col..(LastBlock.start_col + LastBlock.width - 2) :
              CellValue(wb[LastSheet], LastRow, c) = None

\* an absence was written over a row that held a project value and another absence
C2_Witness ==
    /\ JustWrote
    /\ call.mode = "ABS"
    /\ AbsTypeOf(call) # <<>>
    /\ ProjectFilled(disk0[LastSheet], LastBlock, LastRow)
    /\ AbsenceFilled(disk0[LastSheet], LastBlock, LastRow)
    /\ CellValue(disk0[LastSheet], LastRow, LastBlock.start_col + LastBlock.width - 1)
          # Str(AbsTypeOf(call))

\* the hours of the call in tenths of an hour
HoursTenths(h) == IF h.k = "int" THEN h.n * 10 ELSE h.n

\* C3: a successful write_one_day in project mode leaves, at the resolved row, the
\* resolved project column equal to the written hours, as a number, and the
\* absence column of the block empty.
C3_ProjectWrite ==
    (JustWrote /\ call.mode = "PROJ") =>
        LET col == FindProjectCol(wb[LastSheet], LastBlock, ProjOf(call))
            v == CellValue(wb[LastSheet], LastRow, col)
        IN  /\ col # 0
            /\ v.k = "float"
            /\ v.n = HoursTenths(call.hrs)
            /\ CellValue(wb[LastSheet], LastRow, LastBlock.start_col + LastBlock.width - 1)
                  = None

\* whole hours given as an int were written over a row that held other hours in
\* the same project column and an absence
C3_Witness ==
    /\ JustWrote
    /\ call.mode = "PROJ"
    /\ call.hrs.k = "int"
    /\ AbsenceFilled(disk0[LastSheet], LastBlock, LastRow)
    /\ LET col == FindProjectCol(wb[LastSheet], LastBlock, ProjOf(call))
       IN  /\ IsFilled(CellValue(disk0[LastSheet], LastRow, col))
           /\ CellValue(disk0[LastSheet], LastRow, col) # CellValue(wb[LastSheet], LastRow, col)

-----------------------------------------------------------------------------
(* Properties of write_range *)

\* write_range has returned its counts to the caller
Returned == pc = "done" /\ ret.kind = "value"

\* write_range has raised
Raised == pc = "done" /\ ret.kind = "raise"

RangeLo == IF call.d_from <= call.d_to THEN call.d_from ELSE call.d_to
RangeHi == IF call.d_from <= call.d_to THEN call.d_to ELSE call.d_from

\* the Monday to Friday dates of the inclusive range of the call
RangeWeekdays == {d \in RangeLo..RangeHi : Weekday(d) \in 0..4}

CountOp(op) == Cardinality({i \in 1..Len(trail) : trail[i].op = op})

DayIndexes == {i \in 1..Len(trail) : trail[i].op = "day"}

IsWeekendRow(ws, r) ==
    LET dv == AsDate(CellValue(ws, r, DATE_COL))
    IN  dv # NoDate /\ Weekday(dv) \in {5, 6}

WeekendRowsKept(before, after) ==
    \A sn \in DOMAIN before :
        \A r \in DateRows(before[sn]) :
            IsWeekendRow(before[sn], r) =>
                \A c \in 1..MaxColumn(before[sn]) :
                    CellValue(after[sn], r, c) = CellValue(before[sn], r, c)

\* C4: write_range invokes write_one_day exactly once for each Monday to Friday
\* date of the inclusive range and never for a Saturday or Sunday: the counts add
\* up to the number of weekdays (5 for 7 consecutive days) and no cell of a
\* weekend date row changes.
C4_WeekdaysOnly ==
    /\ \A i \in DayIndexes : Weekday(trail[i].dt) \notin {5, 6}
    /\ pc \in {"loop", "close"} => WeekendRowsKept(disk0, wb)
    /\ Returned =>
        /\ \A d \in RangeWeekdays :
              Cardinality({i \in DayIndexes : trail[i].dt = d}) = 1
        /\ Cardinality(DayIndexes) = Cardinality(RangeWeekdays)
        /\ ret.ok + ret.fail = Cardinality(RangeWeekdays)
        /\ (RangeHi - RangeLo = 6) => (ret.ok + ret.fail = 5)
        /\ WeekendRowsKept(disk0, disk)

\* a run over 7 consecutive days wrote some days into a sheet whose weekend rows
\* hold values
C4_Witness ==
    /\ Returned
    /\ RangeHi - RangeLo = 6
    /\ ret.ok >= 3
    /\ disk # disk0
    /\ \E sn \in DOMAIN disk : \E r \in DateRows(disk[sn]) :
          /\ IsWeekendRow(disk[sn], r)
          /\ \E c \in FIRST_EMP_COL..MaxColumn(disk[sn]) : IsFilled(CellValue(disk[sn], r, c))

\* C5: write_range is idempotent: a second call with the same arguments leaves the
\* file as the first call left it and returns the same counts (hours are
\* overwritten, not added up).
C5_Idempotent ==
    (Returned /\ first.set) =>
        /\ disk = first.disk
        /\ ret.ok = first.ok
        /\ ret.fail = first.fail

\* a project write that wrote some days and failed on others was repeated
C5_Witness ==
    /\ Returned
    /\ first.set
    /\ call.mode = "PROJ"
    /\ ret.ok >= 1
    /\ ret.fail >= 1
    /\ disk # book0

\* the lookups of _write_one_day all succeed for this date
Resolvable(book, dt) ==
    LET sn == GetMonthSheet(book, dt)
    IN  /\ sn # NoSheet
        /\ FindDateRow(book[sn], dt) # 0
        /\ FindEmployeeBlock(book[sn], EmpOf(call)) # NoBlock
        /\ call.mode # "ABS" =>
              FindProjectCol(book[sn], FindEmployeeBlock(book[sn], EmpOf(call)),
                             ProjOf(call)) # 0

\* the cells of this date hold what the call writes
DayIsIn(book, dt) ==
    LET ws == book[GetMonthSheet(book, dt)]
        row == FindDateRow(ws, dt)
        b == FindEmployeeBlock(ws, EmpOf(call))
    IN  IF call.mode = "ABS"
        THEN CellValue(ws, row, b.start_col + b.width - 1) = Str(AbsTypeOf(call))
        ELSE LET v == CellValue(ws, row, FindProjectCol(ws, b, ProjOf(call)))
             IN  v.k = "float" /\ v.n = HoursTenths(call.hrs)

\* C6: a weekday whose sheet, date row, employee block or project column is not
\* found counts as one failure and does not end the run: the other dates of the
\* range are still attempted and every day that succeeded, before or after a
\* failed one, is in the saved workbook.
C6_PartialFailure ==
    /\ \A i \in DayIndexes :
          ~Resolvable(disk0, trail[i].dt) => trail[i].res = "fail"
    /\ pc \in {"loop", "close"} =>
          /\ fail = Cardinality({i \in DayIndexes : trail[i].res = "fail"})
          /\ ok = Cardinality({i \in DayIndexes : trail[i].res = "ok"})
    /\ Returned =>
          /\ {trail[i].dt : i \in DayIndexes} = RangeWeekdays
          /\ ret.fail = Cardinality({d \in RangeWeekdays : ~Resolvable(disk0, d)})
          /\ ret.ok = Cardinality({d \in RangeWeekdays : Resolvable(disk0, d)})
          /\ \A i \in DayIndexes : trail[i].res = "ok" => DayIsIn(disk, trail[i].dt)

\* a run wrote a day, failed on the next and wrote a later one, and was saved
C6_Witness ==
    /\ Returned
    /\ disk # disk0
    /\ \E i, j, k \in DayIndexes :
          /\ i < j /\ j < k
          /\ trail[i].res = "ok" /\ trail[j].res = "fail" /\ trail[k].res = "ok"

\* C7: in a run that does not raise, the workbook is opened once and saved
\* exactly once, after the last date of the range was attempted and before the
\* close, also when every day failed.
C7_SaveOnce ==
    /\ CountOp("open") <= 1
    /\ CountOp("save") + CountOp("savefail") <= 1
    /\ Returned =>
          /\ CountOp("open") = 1 /\ trail[1].op = "open"
          /\ CountOp("save") = 1 /\ trail[Len(trail) - 1].op = "save"
          /\ CountOp("close") = 1 /\ trail[Len(trail)].op = "close"
          /\ \A i \in 2..(Len(trail) - 2) : trail[i].op = "day"
          /\ {trail[i].dt : i \in DayIndexes} = RangeWeekdays

\* a run in which every day failed has saved the workbook
C7_Witness ==
    /\ Returned
    /\ ret.ok = 0
    /\ ret.fail >= 2
    /\ CountOp("save") = 1

\* C8: when write_range raises because the open failed after all retries or a
\* day's write raised, the file is what it was before the call, no save was
\* made, and a workbook that was opened is closed.
C8_RaiseKeepsFile ==
    (Raised /\ exc \in {"open", "day"}) =>
        /\ disk = disk0
        /\ CountOp("save") = 0 /\ CountOp("savefail") = 0
        /\ exc = "open" => trail = <<>>
        /\ CountOp("open") = 1 =>
              /\ CountOp("close") = 1
              /\ trail[Len(trail)].op = "close"
              /\ wb = NoBook

\* a day's write raised after an earlier day of the run had failed
C8_Witness ==
    /\ Raised
    /\ exc = "day"
    /\ CountOp("close") = 1
    /\ \E i, j \in DayIndexes :
          i < j /\ trail[i].res = "fail" /\ trail[j].res = "raise"

-----------------------------------------------------------------------------
(* Single runs with project names that no project column carries           *)

DayWindowDays == 5

\* the first date of the window of these runs: Thursday 29 February 2024
DayWindowStart == D(2, 29)

DayProjs == { Str(<<"A","b","w">>), Str(<<" ">>), Str(<<"m","o","i","a"," ">>) }
DayHrs == { PyFloat(35), None }

DayArgs ==
    { [emp |-> e, mode |-> "PROJ", proj |-> p, hrs |-> h, abs_type |-> Str(<<>>),
       d_from |-> a, d_to |-> b] :
        e \in EmpArgs, p \in DayProjs, h \in DayHrs,
        a \in DayWindowStart..(DayWindowStart + DayWindowDays - 1),
        b \in DayWindowStart..(DayWindowStart + DayWindowDays - 1) }
    \cup
    { [emp |-> e, mode |-> "ABS", proj |-> Str(<<>>), hrs |-> PyFloat(0),
       abs_type |-> Str(<<" ","U">>), d_from |-> a, d_to |-> b] :
        e \in EmpArgs,
        a \in DayWindowStart..(DayWindowStart + DayWindowDays - 1),
        b \in DayWindowStart..(DayWindowStart + DayWindowDays - 1) }

WriteRangeCallDays ==
    /\ pc = "idle"
    /\ ncalls < 1
    /\ \E c \in DayArgs : Enter(c)
    /\ ncalls' = ncalls + 1
    /\ first' = NoFirst
    /\ UNCHANGED <<form, disk, book0, probe, retries, last_err>>

NextDays ==
    \/ WriteRangeCallDays
    \/ Run

SpecDays == Init /\ [][NextDays]_vars

\* the last thing the running write_range did was a _write_one_day that returned
JustDid ==
    /\ pc \in {"loop", "close"}
    /\ trail # <<>>
    /\ LastEv.op = "day"
    /\ LastEv.res \in {"ok", "fail"}

\* the employee of the call has a block of one column in a sheet of the workbook
\* and no wider block in any
OneColumnOnly ==
    /\ \A sn \in DOMAIN disk0 :
          FindEmployeeBlock(disk0[sn], EmpOf(call)).width <= 1
    /\ \E sn \in DOMAIN disk0 :
          FindEmployeeBlock(disk0[sn], EmpOf(call)).width = 1

\* C19: for an employee whose block has width 1 every project write, whatever
\* the project name, fails to resolve a project column, is counted as a failure
\* and changes no cell; an absence write to that block succeeds and writes its
\* single column.
C19_SingleColumnBlock ==
    (pc \in {"loop", "close", "done"} /\ call.mode \in {"PROJ", "ABS"} /\ OneColumnOnly) =>
        /\ call.mode = "PROJ" =>
              /\ \A i \in DayIndexes : trail[i].res = "fail"
              /\ pc \in {"loop", "close"} =>
                    (wb = disk0 /\ ok = 0 /\ fail = Cardinality(DayIndexes))
              /\ pc = "done" =>
                    (disk = disk0 /\ (Returned =>
                        (ret.ok = 0 /\ ret.fail = Cardinality(RangeWeekdays))))
        /\ (/\ call.mode = "ABS"
            /\ JustDid
            /\ LastSheet # NoSheet
            /\ LastRow # 0
            /\ LastBlock.width = 1) =>
              /\ LastEv.res = "ok"
              /\ CellValue(wb[LastSheet], LastRow, LastBlock.start_col)
                    = Str(AbsTypeOf(call))

\* a run in project mode, under the name the single column carries in the
\* subheader row, failed on days whose rows hold an absence in that column
C19_Witness ==
    /\ Returned
    /\ call.mode = "PROJ"
    /\ OneColumnOnly
    /\ ret.fail >= 2
    /\ \E i \in DayIndexes :
          LET sn == GetMonthSheet(disk, trail[i].dt)
          IN  /\ sn # NoSheet
              /\ FindDateRow(disk[sn], trail[i].dt) # 0
              /\ LET b == FindEmployeeBlock(disk[sn], EmpOf(call))
                 IN  /\ b.width = 1
                     /\ NormalizeKey(CellValue(disk[sn], SUBHEADER_ROW, b.start_col).s)
                           = NormalizeKey(ProjOf(call))
                     /\ IsFilled(CellValue(disk[sn], FindDateRow(disk[sn], trail[i].dt),
                                           b.start_col))

\* the step is a _write_one_day that returned False
DayFailed ==
    /\ pc = "loop"
    /\ Len(trail') = Len(trail) + 1
    /\ trail'[Len(trail')].op = "day"
    /\ trail'[Len(trail')].res = "fail"

\* C20: a write_one_day that returns failure (month sheet, date row, employee
\* block or project column not found) leaves every cell of the workbook as it
\* was: nothing is written before all lookups are done.
C20_FailureWritesNothing == [][DayFailed => (wb' = wb /\ disk' = disk)]_vars

\* a project write failed on its project column, for a date whose row and block
\* are found and whose absence column holds a value
C20_Witness ==
    /\ JustDid
    /\ LastEv.res = "fail"
    /\ call.mode = "PROJ"
    /\ LastSheet # NoSheet
    /\ LastRow # 0
    /\ LastBlock # NoBlock
    /\ IsFilled(CellValue(wb[LastSheet], LastRow, AbsCol(LastBlock)))

-----------------------------------------------------------------------------
(* load_lists *)

MaxListRows == 3

\* variant: a value is appended every time it is seen
RECURSIVE UniqueFromColFrom_KeepDuplicates(_, _, _, _, _)
UniqueFromColFrom_KeepDuplicates(ws, col, r, max_row, out) ==
    IF r > max_row THEN out
    ELSE LET s == CellText(CellValue(ws, r, col))
         IN  IF s # <<>>
             THEN UniqueFromColFrom_KeepDuplicates(ws, col, r + 1, max_row, Append(out, s))
             ELSE UniqueFromColFrom_KeepDuplicates(ws, col, r + 1, max_row, out)

RECURSIVE UniqueFromColFrom(_, _, _, _, _)
UniqueFromColFrom(ws, col, r, max_row, out) ==
    IF r > max_row THEN out
    ELSE LET s == CellText(CellValue(ws, r, col))
         IN  IF s # <<>> /\ \A i \in 1..Len(out) : out[i] # s
             THEN UniqueFromColFrom(ws, col, r + 1, max_row, Append(out, s))
             ELSE UniqueFromColFrom(ws, col, r + 1, max_row, out)

UniqueFromCol(ws, col, first_row) ==
    UniqueFromColFrom(ws, col, first_row, MaxRow(ws), <<>>)

\* variant: a workbook without the sheet gives three empty lists
LoadListsResult_EmptyIfMissing(book) ==
    IF SHEET_EINGABE \notin DOMAIN book
    THEN [raised |-> FALSE, lists |-> << <<>>, <<>>, <<>> >>]
    ELSE [raised |-> FALSE,
          lists |-> << UniqueFromCol(book[SHEET_EINGABE], COL_EMP, FIRST_ROW_LIST),
                       UniqueFromCol(book[SHEET_EINGABE], COL_PROJ, FIRST_ROW_LIST),
                       UniqueFromCol(book[SHEET_EINGABE], COL_ABS, FIRST_ROW_LIST) >>]

\* the try block of load_lists: raises when the sheet is not in the workbook
LoadListsResult(book) ==
    IF SHEET_EINGABE \notin DOMAIN book
    THEN [raised |-> TRUE, lists |-> <<>>]
    ELSE [raised |-> FALSE,
          lists |-> << UniqueFromCol(book[SHEET_EINGABE], COL_EMP, FIRST_ROW_LIST),
                       UniqueFromCol(book[SHEET_EINGABE], COL_PROJ, FIRST_ROW_LIST),
                       UniqueFromCol(book[SHEET_EINGABE], COL_ABS, FIRST_ROW_LIST) >>]

\* the cells of one list column, from row 4 down; None leaves the cell out
ColumnCells(col, values) ==
    { <<FIRST_ROW_LIST + i - 1, col, values[i]>> :
        i \in {j \in 1..Len(values) : values[j] # None} }

\* the captions above the lists, in the row before the first list row
ListCaptions ==
    { <<FIRST_ROW_LIST - 1, col, Str(<<"L","i","s","t","e">>)>> :
        col \in {COL_EMP, COL_PROJ, COL_ABS} }

SettingsSheet(emps, projs, abss) ==
    [cells |-> Cells(ListCaptions \cup ColumnCells(COL_EMP, emps)
                     \cup ColumnCells(COL_PROJ, projs) \cup ColumnCells(COL_ABS, abss)),
     merges |-> {}]

ListValues ==
    { None, Str(<<"A">>), Str(<<" ","A"," ">>), Str(<<"a">>), Str(<<" ">>) }

ListColumns == UNION { [1..n -> ListValues] : n \in 0..MaxListRows }

ProjColumns == { <<>>, <<Str(<<"M","O","I","A">>), None, Str(<<"M","O","I","A">>)>> }

AbsColumns == { <<>>, <<None, Str(<<"U">>), Str(<<"K"," ">>)>> }

\* workbooks with the sheet "Anpassung" and workbooks without it
ListBooks ==
    { [sn \in {SHEET_EINGABE, "März"} |->
          IF sn = SHEET_EINGABE THEN SettingsSheet(e, p, a) ELSE MarchSheet(FALSE, TRUE, {})] :
        e \in ListColumns, p \in ProjColumns, a \in AbsColumns }
    \cup { BookA, BookB }

LoadListsCall == [NoCall EXCEPT !.mode = "LISTS"]

InitLists ==
    /\ disk \in ListBooks
    /\ book0 = disk
    /\ pc = "idle"
    /\ call = NoCall
    /\ wb = NoBook
    /\ tries = 0
    /\ cur = NoDate
    /\ ok = 0
    /\ fail = 0
    /\ exc = "none"
    /\ ret = NoRet
    /\ trail = <<>>
    /\ disk0 = disk
    /\ first = NoFirst
    /\ ncalls = 0
    /\ probe = <<>>
    /\ retries = DEFAULT_RETRIES
    /\ last_err = NoError
    /\ form = State0

\* a caller invokes load_lists
LoadLists ==
    /\ pc = "idle"
    /\ ncalls < 1
    /\ call' = LoadListsCall
    /\ pc' = "lists_open"
    /\ ncalls' = ncalls + 1
    /\ UNCHANGED <<form, disk, book0, wb, tries, cur, ok, fail, exc, ret, trail, disk0, first, probe, retries, last_err>>

ListsOpenSucceeds ==
    /\ pc = "lists_open"
    /\ tries < retries
    /\ wb' = disk
    /\ tries' = 0
    /\ trail' = Append(trail, Ev("open", NoDate, ""))
    /\ pc' = "lists_read"
    /\ UNCHANGED <<form, disk, book0, call, cur, ok, fail, exc, ret, disk0, first, ncalls, probe, retries, last_err>>

ListsOpenFails ==
    /\ pc = "lists_open"
    /\ tries < retries
    /\ IF tries + 1 < retries
       THEN /\ tries' = tries + 1
            /\ UNCHANGED <<pc, exc, ret>>
       ELSE /\ tries' = 0
            /\ exc' = "open"
            /\ ret' = RetRaise
            /\ pc' = "done"
    /\ UNCHANGED <<form, disk, book0, call, wb, cur, ok, fail, trail, disk0, first, ncalls, probe, retries, last_err>>

\* the try block: the sheet check and the three columns
ListsRead ==
    /\ pc = "lists_read"
    /\ LET r == LoadListsResult(wb)
       IN  IF r.raised
           THEN /\ exc' = "nosheet"
                /\ ret' = ret
           ELSE /\ exc' = exc
                /\ ret' = RetLists(r.lists)
    /\ trail' = Append(trail, Ev("read", NoDate, ""))
    /\ pc' = "lists_close"
    /\ UNCHANGED <<form, disk, book0, call, wb, tries, cur, ok, fail, disk0, first, ncalls, probe, retries, last_err>>

\* finally: wb.close(), then the return or the propagating exception
ListsClose ==
    /\ pc = "lists_close"
    /\ wb' = NoBook
    /\ trail' = Append(trail, Ev("close", NoDate, ""))
    /\ ret' = IF exc = "none" THEN ret ELSE RetRaise
    /\ pc' = "done"
    /\ UNCHANGED <<form, disk, book0, call, tries, cur, ok, fail, exc, disk0, first, ncalls, probe, retries, last_err>>

NextLists ==
    \/ LoadLists
    \/ ListsOpenSucceeds
    \/ ListsOpenFails
    \/ ListsRead
    \/ ListsClose
    \/ Return

SpecLists == InitLists /\ [][NextLists]_vars

\* load_lists ran on a workbook that could be opened and has no sheet "Anpassung"
ListsDoneWithoutSheet ==
    /\ pc = "done"
    /\ call.mode = "LISTS"
    /\ exc # "open"
    /\ SHEET_EINGABE \notin DOMAIN disk

\* C9 as stated: load_lists on a workbook without the settings sheet returns
\* three empty sequences rather than failing.
C9_MissingSheetGivesEmptyLists ==
    ListsDoneWithoutSheet =>
        /\ ret.kind = "lists"
        /\ ret.lists = << <<>>, <<>>, <<>> >>

\* C9 as amended: load_lists on a workbook without the settings sheet raises
\* (RuntimeError, sheet not found) and returns no sequences; the workbook it
\* opened is closed before the error reaches the caller.
C9_MissingSheetRaises ==
    ListsDoneWithoutSheet =>
        /\ ret.kind = "raise"
        /\ exc = "nosheet"
        /\ ret.lists = <<>>
        /\ CountOp("open") = 1 /\ CountOp("close") = 1
        /\ trail[Len(trail)].op = "close"

\* load_lists was run on a workbook that holds month sheets only
C9_Witness ==
    /\ ListsDoneWithoutSheet
    /\ DOMAIN disk # {}
    /\ CountOp("read") = 1

\* load_lists returned the lists of a workbook that has the sheet "Anpassung"
ListsReturned ==
    /\ pc = "done"
    /\ call.mode = "LISTS"
    /\ ret.kind = "lists"

\* the rows of a list column, from row 4 down, whose trimmed text is s
RowsOf(ws, col, s) ==
    {r \in FIRST_ROW_LIST..MaxRow(ws) :
        CellValue(ws, r, col) # None /\ Strip(CellValue(ws, r, col).s) = s}

\* the trimmed texts of a list column that are not empty
ColumnTexts(ws, col) ==
    {Strip(CellValue(ws, r, col).s) :
        r \in {q \in FIRST_ROW_LIST..MaxRow(ws) : CellValue(ws, q, col) # None}} \ {<<>>}

FirstRowOf(ws, col, s) == CHOOSE r \in RowsOf(ws, col, s) : \A q \in RowsOf(ws, col, s) : r <= q

ListOfColumn(ws, col, list) ==
    /\ {list[i] : i \in 1..Len(list)} = ColumnTexts(ws, col)
    /\ \A i, j \in 1..Len(list) : i # j => list[i] # list[j]
    /\ \A i \in 1..Len(list) : list[i] # <<>>
    /\ \A i, j \in 1..Len(list) :
          i < j => FirstRowOf(ws, col, list[i]) < FirstRowOf(ws, col, list[j])

\* C17: each of the three sequences load_lists returns holds every non-empty
\* trimmed value of its column (13, 14, 16, from row 4 down) exactly once, in the
\* order of first occurrence, and holds no empty string.
C17_ListsDistinctInOrder ==
    ListsReturned =>
        /\ Len(ret.lists) = 3
        /\ ListOfColumn(disk[SHEET_EINGABE], 13, ret.lists[1])
        /\ ListOfColumn(disk[SHEET_EINGABE], 14, ret.lists[2])
        /\ ListOfColumn(disk[SHEET_EINGABE], 16, ret.lists[3])

\* the employee column holds three values, two of them the same once trimmed, and
\* the project column holds a value twice
C17_Witness ==
    /\ ListsReturned
    /\ Len(ret.lists[1]) = 2
    /\ \A r \in FIRST_ROW_LIST..(FIRST_ROW_LIST + 2) :
          CellValue(disk[SHEET_EINGABE], r, COL_EMP) # None
    /\ \E r \in FIRST_ROW_LIST..(FIRST_ROW_LIST + 2) :
          LET v == CellValue(disk[SHEET_EINGABE], r, COL_EMP).s
          IN  Strip(v) # v /\ Strip(v) # <<>>
    /\ Len(ret.lists[2]) = 1
    /\ Cardinality(RowsOf(disk[SHEET_EINGABE], COL_PROJ, ret.lists[2][1])) = 2

-----------------------------------------------------------------------------
(* The header scan on its own: header rows made of two runs of empty       *)
(* header cells, each followed by an employee's header cell.               *)

MaxGap == 16

\* one header cell: its value and the number of columns it is merged over
Entry(label, width) == [label |-> label, width |-> width]

\* a run of n empty header cells: unmerged and without a value, unmerged and
\* blank, or merged over two columns and without a value
Gap(n, kind) ==
    [i \in 1..n |->
        IF kind = "merge" THEN Entry(None, 2)
        ELSE IF kind = "blank" THEN Entry(Str(<<" ">>), 1)
        ELSE Entry(None, 1)]

GapKinds == {"cell", "blank", "merge"}

HeaderRows ==
    { Gap(a, k1) \o <<Entry(Str(<<"M","a","x"," ">>), 3)>>
      \o Gap(b, k2) \o <<Entry(Str(<<" ","E","V","A">>), w)>> :
        a \in 0..MaxGap, b \in 0..MaxGap, k1 \in GapKinds, k2 \in GapKinds, w \in 1..2 }

RECURSIVE EntryCol(_, _, _)
EntryCol(entries, first_col, i) ==
    IF i = 1 THEN first_col
    ELSE EntryCol(entries, first_col, i - 1) + entries[i - 1].width

\* the sheet whose header row holds the entries from first_col on
HeaderSheet(entries, first_col) ==
    [cells |-> Cells(
        { <<HEADER_ROW, EntryCol(entries, first_col, i), entries[i].label>> :
            i \in {j \in 1..Len(entries) : entries[j].label # None} }),
     merges |->
        { Merge(HEADER_ROW, HEADER_ROW, EntryCol(entries, first_col, i),
                EntryCol(entries, first_col, i) + entries[i].width - 1) :
            i \in {j \in 1..Len(entries) : entries[j].width > 1} }]

ScanNames == { <<"m","a","x">>, <<"E","v","a"," ">>, <<"B","o","b">> }

InitScan ==
    /\ disk = NoBook
    /\ book0 = NoBook
    /\ pc = "idle"
    /\ call = NoCall
    /\ wb = NoBook
    /\ tries = 0
    /\ cur = NoDate
    /\ ok = 0
    /\ fail = 0
    /\ exc = "none"
    /\ ret = NoRet
    /\ trail = <<>>
    /\ disk0 = NoBook
    /\ first = NoFirst
    /\ ncalls = 0
    /\ probe = <<>>
    /\ retries = DEFAULT_RETRIES
    /\ last_err = NoError
    /\ form = State0

\* _find_employee_block is evaluated on a header row
ScanHeader ==
    /\ probe = <<>>
    /\ \E entries \in HeaderRows, emp \in ScanNames :
          LET ws == HeaderSheet(entries, FIRST_EMP_COL)
          IN  probe' = [entries |-> entries, first_col |-> FIRST_EMP_COL, ws |-> ws,
                        emp |-> emp, block |-> FindEmployeeBlock(ws, emp)]
    /\ UNCHANGED <<form, disk, book0, pc, call, wb, tries, cur, ok, fail, exc, ret, trail,
                   disk0, first, ncalls, retries, last_err>>

NextScan == ScanHeader

SpecScan == InitScan /\ [][NextScan]_vars

Probed == probe # <<>>

EntryEmpty(e) == e.label = None \/ Strip(e.label.s) = <<>>

EntryMatches(e, emp) ==
    /\ ~EntryEmpty(e)
    /\ Lower(Strip(e.label.s)) = Lower(Strip(emp))

\* the header cells that carry the name looked for
Hits == {i \in 1..Len(probe.entries) : EntryMatches(probe.entries[i], probe.emp)}

\* 15 consecutive empty header cells lie to the left of header cell i
CellRunBefore(i) ==
    \E j \in 1..(i - 15) : \A m \in j..(j + 14) : EntryEmpty(probe.entries[m])

\* the resolved label of a header column is empty
ColumnEmpty(c) ==
    NormalizeKey(HeaderCellValueAndWidth(probe.ws, HEADER_ROW, c)[1]) = <<>>

\* 15 consecutive header columns with an empty label lie between column 6 and
\* column c
ColumnRunBefore(c) ==
    \E j \in FIRST_EMP_COL..(c - 15) : \A m \in j..(j + 14) : ColumnEmpty(m)

\* C10 as stated: the scan gives up once it has passed 15 consecutive header
\* columns, merged or not, with an empty label, so a block found never lies to
\* the right of 15 or more consecutive empty header columns.
C10_FifteenEmptyColumns ==
    (Probed /\ probe.block # NoBlock) => ~ColumnRunBefore(probe.block.start_col)

\* C10 as amended: the scan counts header cells, a merged range once whatever
\* its width: it returns the first header cell with the name unless 15
\* consecutive empty header cells lie to its left, and not-found otherwise; each
\* step moves to the right, so the scan ends.
C10_FifteenEmptyCells ==
    Probed =>
        /\ LET first_hit == CHOOSE i \in Hits : \A j \in Hits : i <= j
           IN  IF Hits # {} /\ ~CellRunBefore(first_hit)
               THEN probe.block =
                        [start_col |-> EntryCol(probe.entries, probe.first_col, first_hit),
                         width |-> probe.entries[first_hit].width]
               ELSE probe.block = NoBlock
        /\ \A c \in FIRST_EMP_COL..MaxColumn(probe.ws) :
              HeaderCellValueAndWidth(probe.ws, HEADER_ROW, c)[3] > c

\* a name that is in the header row is not found: 15 empty header cells, some of
\* them merged, lie to its left
C10_Witness ==
    /\ Probed
    /\ Hits # {}
    /\ probe.block = NoBlock
    /\ \E i \in 1..Len(probe.entries) :
          EntryEmpty(probe.entries[i]) /\ probe.entries[i].width > 1

-----------------------------------------------------------------------------
(* The layout lookups on their own: month sheets with two employee blocks  *)
(* of every width, whose labels may be the same name, over subheader rows  *)
(* that repeat a pattern of project labels.                                *)

MaxWidth == 4
PatternLen == 3

PutCells(ws, triples) ==
    [ws EXCEPT !.cells =
        [x \in (DOMAIN ws.cells) \cup {<<t[1], t[2]>> : t \in triples} |->
            IF \E t \in triples : t[1] = x[1] /\ t[2] = x[2]
            THEN (CHOOSE t \in triples : t[1] = x[1] /\ t[2] = x[2])[3]
            ELSE ws.cells[x]]]

\* values of subheader cells: project labels in several spellings, or no value
SubLabels ==
    { Str(<<"M","O","I","A">>), Str(<<" ","m","o","i","a">>), Str(<<"D","i","E"," ">>), None }

SubPatterns == [1..PatternLen -> SubLabels]

\* the subheader value the pattern puts in column c
SubLabelAt(sub, c) == sub[((c - FIRST_EMP_COL) % PatternLen) + 1]

LayoutHeaders ==
    { <<Entry(l1, w1), Entry(l2, w2)>> :
        l1 \in { Str(<<"M","a","x"," ">>), Str(<<" ","E","V","A">>) },
        l2 \in { Str(<<"M","A","X">>), Str(<<"e","v","a">>) },
        w1 \in 1..MaxWidth, w2 \in 1..(MaxWidth - 1) }

LastCol(entries, first_col) ==
    EntryCol(entries, first_col, Len(entries)) + entries[Len(entries)].width - 1

\* the month sheet with this header row and this subheader pattern
LayoutSheet(entries, sub) ==
    PutCells(HeaderSheet(entries, FIRST_EMP_COL),
             { <<SUBHEADER_ROW, c, SubLabelAt(sub, c)>> :
                 c \in {d \in FIRST_EMP_COL..LastCol(entries, FIRST_EMP_COL) :
                            SubLabelAt(sub, d) # None} })

LookupEmps == { <<" ","m","a","x">>, <<"M","A","X">>, <<"E","v","a"," ">>, <<"B","o","b">> }
LookupProjs == { <<"m","o","i","a"," ">>, <<"M","O","I","A">>, <<" ","d","i","e">> }

\* _find_employee_block and, on the block it returns, _find_project_col
Lookup ==
    /\ probe = <<>>
    /\ \E entries \in LayoutHeaders, sub \in SubPatterns,
          emp \in LookupEmps, proj \in LookupProjs :
          LET ws == LayoutSheet(entries, sub)
              block == FindEmployeeBlock(ws, emp)
          IN  probe' = [kind |-> "lookup", entries |-> entries, first_col |-> FIRST_EMP_COL,
                        sub |-> sub, ws |-> ws, emp |-> emp, proj |-> proj,
                        block |-> block,
                        proj_col |-> IF block = NoBlock THEN 0
                                     ELSE FindProjectCol(ws, block, proj)]
    /\ UNCHANGED <<form, disk, book0, pc, call, wb, tries, cur, ok, fail, exc, ret, trail,
                   disk0, first, ncalls, retries, last_err>>

\* every block cell of the two rows that hold 5 March holds hours
FullRows(entries) ==
    { <<r, c, PyFloat(10)>> :
        r \in {DATE_FIRST_ROW, DATE_FIRST_ROW + 2},
        c \in FIRST_EMP_COL..LastCol(entries, FIRST_EMP_COL) }

WriteSheet(entries, sub) == PutCells(LayoutSheet(entries, sub), ScanDates \cup FullRows(entries))

\* the subheader patterns that label every column
WritePatterns == {sub \in SubPatterns : \A i \in 1..PatternLen : sub[i] # None}

WriteEmps == { <<"m","a","x">>, <<"E","v","a">> }
WriteDates == { D(3, 5), D(3, 4) }

\* _write_one_day on a workbook whose March sheet has this layout
WriteDay ==
    /\ probe = <<>>
    /\ \E entries \in LayoutHeaders, sub \in WritePatterns, emp \in WriteEmps,
          dt \in WriteDates, mode \in {"PROJ", "ABS"} :
          LET ws == WriteSheet(entries, sub)
              book == [sn \in {"März"} |-> ws]
              proj == IF mode = "PROJ" THEN <<"m","o","i","a">> ELSE <<>>
              abs_type == IF mode = "ABS" THEN <<"U">> ELSE <<>>
          IN  probe' = [kind |-> "write", entries |-> entries, first_col |-> FIRST_EMP_COL,
                        sub |-> sub, ws |-> ws, emp |-> emp, proj |-> proj, dt |-> dt,
                        mode |-> mode, abs_type |-> abs_type,
                        out |-> WriteOneDay(book, dt, emp, mode, proj, PyFloat(35), abs_type)]
    /\ UNCHANGED <<form, disk, book0, pc, call, wb, tries, cur, ok, fail, exc, ret, trail,
                   disk0, first, ncalls, retries, last_err>>

NextLookup ==
    \/ WriteDay
    \/ Lookup

SpecLookup == InitScan /\ [][NextLookup]_vars

LookedUp == probe # <<>> /\ probe.kind = "lookup"

\* the leftmost header cell that carries the name looked for
FirstHit == CHOOSE i \in Hits : \A j \in Hits : i <= j

\* the subheader text of column c equals the project name, both trimmed and lowercased
SubMatches(sub, c, proj) ==
    LET v == SubLabelAt(sub, c)
    IN  Lower(Strip(IF v = None THEN <<>> ELSE v.s)) = Lower(Strip(proj))

\* C11: for an employee header merged over k >= 1 columns the block returned has
\* width k and its absence column is the k-th column of the merge; the project
\* lookup examines the first k - 1 columns only (a label in the absence column
\* or further right is not found) and never returns the absence column.
C11_BlockOfMerge ==
    (LookedUp /\ Hits # {}) =>
        LET k == probe.entries[FirstHit].width
            start == EntryCol(probe.entries, probe.first_col, FirstHit)
            inner == {c \in start..(start + k - 2) : SubMatches(probe.sub, c, probe.proj)}
        IN  /\ probe.block = [start_col |-> start, width |-> k]
            /\ k > 1 => Merge(HEADER_ROW, HEADER_ROW, start, start + k - 1) \in probe.ws.merges
            /\ AbsCol(probe.block) = start + k - 1
            /\ probe.proj_col # AbsCol(probe.block)
            /\ inner = {} => probe.proj_col = 0
            /\ inner # {} => probe.proj_col \in inner

\* the project label is in the absence column of a block of width 3 and in none
\* of its two project columns
C11_Witness ==
    /\ LookedUp
    /\ Hits # {}
    /\ probe.block.width = 3
    /\ SubMatches(probe.sub, AbsCol(probe.block), probe.proj)
    /\ \A c \in probe.block.start_col..(AbsCol(probe.block) - 1) :
          ~SubMatches(probe.sub, c, probe.proj)
    /\ probe.proj_col = 0

\* two names are equal after trimming surrounding whitespace and lowercasing
SameName(a, b) == Lower(Strip(a)) = Lower(Strip(b))

\* C12: employee and project lookups are case- and whitespace-insensitive: two
\* names that are equal after trimming and lowercasing resolve to the same block
\* and to the same project column, and the header and subheader cell texts are
\* trimmed and lowercased in the same way before they are compared.
C12_NamesInsensitive ==
    LookedUp =>
        /\ \A e \in LookupEmps :
              SameName(e, probe.emp) => FindEmployeeBlock(probe.ws, e) = probe.block
        /\ \A p \in LookupProjs :
              (SameName(p, probe.proj) /\ probe.block # NoBlock) =>
                  FindProjectCol(probe.ws, probe.block, p) = probe.proj_col
        /\ (probe.block # NoBlock) <=> (Hits # {})
        /\ probe.block # NoBlock =>
              probe.block.start_col = EntryCol(probe.entries, probe.first_col, FirstHit)
        /\ probe.proj_col # 0 => SubMatches(probe.sub, probe.proj_col, probe.proj)
        /\ (probe.block # NoBlock /\ probe.proj_col = 0) =>
              \A c \in probe.block.start_col..(AbsCol(probe.block) - 1) :
                  ~SubMatches(probe.sub, c, probe.proj)

\* a name was found under a header cell, and a project under a subheader cell,
\* that are spelled with other case and other surrounding whitespace
C12_Witness ==
    /\ LookedUp
    /\ probe.block # NoBlock
    /\ probe.proj_col # 0
    /\ LET h == CellValue(probe.ws, HEADER_ROW, probe.block.start_col).s
           v == CellValue(probe.ws, SUBHEADER_ROW, probe.proj_col).s
       IN  /\ Strip(h) # h /\ Lower(h) # h /\ Strip(h) # Strip(probe.emp)
           /\ Strip(v) # v /\ Lower(v) # v /\ Strip(probe.proj) # probe.proj
    /\ \E e \in LookupEmps : e # probe.emp /\ SameName(e, probe.emp)

Written == probe # <<>> /\ probe.kind = "write"

\* the rows of the date column that hold the date
RowsOfDate(ws, dt) ==
    {r \in DATE_FIRST_ROW..MaxRow(ws) : AsDate(CellValue(ws, r, DATE_COL)) = dt}

\* the project columns of the block under header cell i whose label is the project
ColsOfProject(i) ==
    LET start == EntryCol(probe.entries, probe.first_col, i)
    IN  {c \in start..(start + probe.entries[i].width - 2) :
            SubMatches(probe.sub, c, probe.proj)}

\* the cells whose value differs between two sheets
ChangedCells(before, after) ==
    {x \in (DOMAIN before.cells) \cup (DOMAIN after.cells) :
        CellValue(before, x[1], x[2]) # CellValue(after, x[1], x[2])}

\* C18: the first match wins in the three lookups: of several header blocks with
\* the same normalized label the leftmost is returned, of several subheader
\* cells of the block with the same normalized label the leftmost column, of
\* several rows with the same date the lowest row; a write changes cells of that
\* first row and that first block only.
C18_FirstMatchWins ==
    /\ (LookedUp /\ Hits # {}) =>
          /\ probe.block.start_col = EntryCol(probe.entries, probe.first_col, FirstHit)
          /\ \A i \in Hits : probe.block.start_col <= EntryCol(probe.entries, probe.first_col, i)
          /\ \A c \in ColsOfProject(FirstHit) : probe.proj_col # 0 /\ probe.proj_col <= c
    /\ (Written /\ probe.out.success) =>
          LET after == probe.out.book["März"]
              row == CHOOSE r \in RowsOfDate(probe.ws, probe.dt) :
                        \A q \in RowsOfDate(probe.ws, probe.dt) : r <= q
              start == EntryCol(probe.entries, probe.first_col, FirstHit)
              last == start + probe.entries[FirstHit].width - 1
          IN  /\ FindDateRow(probe.ws, probe.dt) = row
              /\ \A x \in ChangedCells(probe.ws, after) :
                    x[1] = row /\ x[2] \in start..last
              /\ probe.mode = "ABS" => CellValue(after, row, last) = Str(probe.abs_type)
              /\ probe.mode = "PROJ" =>
                    \E c \in ColsOfProject(FirstHit) :
                        /\ \A d \in ColsOfProject(FirstHit) : c <= d
                        /\ CellValue(after, row, c) = PyFloat(35)

\* a write for a date that two rows hold, for a name that two blocks carry and a
\* project that two columns of the first block carry, changed cells
C18_Witness ==
    /\ Written
    /\ probe.out.success
    /\ probe.mode = "PROJ"
    /\ Cardinality(RowsOfDate(probe.ws, probe.dt)) = 2
    /\ Cardinality(Hits) = 2
    /\ Cardinality(ColsOfProject(FirstHit)) = 2
    /\ ChangedCells(probe.ws, probe.out.book["März"]) # {}

-----------------------------------------------------------------------------
(* The sheet router on its own: workbooks with any set of these sheets.    *)

SheetNames == {"Januar", "Februar", "März", "Maerz", "Marz", "April", "Dezember"}

ProbeYears == {2024, 2025}
ProbeDay == 15

EmptySheet == [cells |-> Cells({}), merges |-> {}]

\* _get_month_sheet is evaluated on a workbook and a date
ResolveSheet ==
    /\ probe = <<>>
    /\ \E names \in SUBSET SheetNames, y \in ProbeYears, m \in 1..12 :
          LET book == [sn \in names |-> EmptySheet]
          IN  probe' = [kind |-> "sheet", names |-> names, year |-> y, month |-> m,
                        sheet |-> GetMonthSheet(book, ToOrdinal(y, m, ProbeDay))]
    /\ UNCHANGED <<form, disk, book0, pc, call, wb, tries, cur, ok, fail, exc, ret, trail,
                   disk0, first, ncalls, retries, last_err>>

NextSheets == ResolveSheet

SpecSheets == InitScan /\ [][NextSheets]_vars

SheetProbed == probe # <<>> /\ probe.kind = "sheet"

\* C13: for a date in March the sheet "März" is returned when the workbook has
\* it, otherwise the sheet "Maerz" when the workbook has that, otherwise
\* not-found; for a date in another month the sheet with that month's name or
\* not-found, never another sheet.
C13_MonthSheet ==
    SheetProbed =>
        IF probe.month = 3
        THEN probe.sheet =
                IF "März" \in probe.names THEN "März"
                ELSE IF "Maerz" \in probe.names THEN "Maerz"
                ELSE NoSheet
        ELSE probe.sheet =
                IF MONTH_DE[probe.month] \in probe.names THEN MONTH_DE[probe.month]
                ELSE NoSheet

\* a date in March on a workbook that has "Maerz" and other sheets, not "März"
C13_Witness ==
    /\ SheetProbed
    /\ probe.month = 3
    /\ "März" \notin probe.names
    /\ {"Maerz", "Februar", "April", "Marz"} \subseteq probe.names
    /\ probe.sheet = "Maerz"

-----------------------------------------------------------------------------
(* _open_workbook on its own, for every retry count up to MaxRetries       *)

MaxRetries == 3

\* what load_workbook raises: the file is locked, or it is not there
OpenErrors == {"PermissionError", "FileNotFoundError"}

RetWorkbook(book) ==
    [kind |-> "workbook", ok |-> 0, fail |-> 0, lists |-> <<>>, book |-> book]

\* RuntimeError whose message holds str(last_err)
RetUnavailable(cause) ==
    [kind |-> "raise", ok |-> 0, fail |-> 0, lists |-> <<>>, cause |-> cause]

InitOpen ==
    /\ disk \in Books
    /\ book0 = disk
    /\ pc = "idle"
    /\ call = NoCall
    /\ wb = NoBook
    /\ tries = 0
    /\ cur = NoDate
    /\ ok = 0
    /\ fail = 0
    /\ exc = "none"
    /\ ret = NoRet
    /\ trail = <<>>
    /\ disk0 = disk
    /\ first = NoFirst
    /\ ncalls = 0
    /\ probe = <<>>
    /\ retries \in 0..MaxRetries
    /\ last_err = NoError
    /\ form = State0

\* _open_workbook is called
OpenWorkbook ==
    /\ pc = "idle"
    /\ ncalls < 1
    /\ pc' = "retry_loop"
    /\ tries' = 0
    /\ last_err' = NoError
    /\ trail' = <<>>
    /\ ncalls' = ncalls + 1
    /\ UNCHANGED <<form, disk, book0, call, wb, cur, ok, fail, exc, ret, disk0, first, probe,
                   retries>>

\* an iteration of the loop: load_workbook returns, and so does _open_workbook
AttemptSucceeds ==
    /\ pc = "retry_loop"
    /\ tries < retries
    /\ wb' = disk
    /\ ret' = RetWorkbook(disk)
    /\ trail' = Append(trail, Ev("attempt", NoDate, "ok"))
    /\ pc' = "done"
    /\ UNCHANGED <<form, disk, book0, call, tries, cur, ok, fail, exc, disk0, first, ncalls,
                   probe, retries, last_err>>

\* variant: last_err keeps the first error
AttemptFails_KeepsFirst ==
    /\ pc = "retry_loop"
    /\ tries < retries
    /\ \E e \in OpenErrors :
          /\ last_err' = IF last_err = NoError THEN e ELSE last_err
          /\ trail' = Append(trail, Ev("attempt", NoDate, e))
    /\ tries' = tries + 1
    /\ UNCHANGED <<form, disk, book0, pc, call, wb, cur, ok, fail, exc, ret, disk0, first,
                   ncalls, probe, retries>>

\* an iteration of the loop: load_workbook raises, the error is kept, then the wait
AttemptFails ==
    /\ pc = "retry_loop"
    /\ tries < retries
    /\ \E e \in OpenErrors :
          /\ last_err' = e
          /\ trail' = Append(trail, Ev("attempt", NoDate, e))
    /\ tries' = tries + 1
    /\ UNCHANGED <<form, disk, book0, pc, call, wb, cur, ok, fail, exc, ret, disk0, first,
                   ncalls, probe, retries>>

\* the loop is over: raise RuntimeError with last_err in its message
Exhausted ==
    /\ pc = "retry_loop"
    /\ tries >= retries
    /\ exc' = "open"
    /\ ret' = RetUnavailable(last_err)
    /\ pc' = "done"
    /\ UNCHANGED <<form, disk, book0, call, wb, tries, cur, ok, fail, trail, disk0, first,
                   ncalls, probe, retries, last_err>>

NextOpen ==
    \/ OpenWorkbook
    \/ AttemptSucceeds
    \/ AttemptFails
    \/ Exhausted

SpecOpen == InitOpen /\ [][NextOpen]_vars

Attempts == {i \in 1..Len(trail) : trail[i].op = "attempt"}

FailedAttempts == {i \in Attempts : trail[i].res # "ok"}

OpenDone == pc = "done" /\ ret.kind \in {"workbook", "raise"}

\* C14: with retry count N at most N open attempts are made; the workbook of the
\* first attempt that succeeds is returned and no attempt follows it; the
\* "unavailable" error is raised exactly when N attempts in a row have failed,
\* and it carries the cause of the last of them.
C14_OpenRetry ==
    (pc \in {"retry_loop", "done"} /\ ncalls = 1) =>
        /\ Cardinality(Attempts) <= retries
        /\ \A i \in Attempts : i < Len(trail) => trail[i].res # "ok"
        /\ pc = "retry_loop" => FailedAttempts = Attempts
        /\ OpenDone =>
              /\ ret.kind = "workbook" <=> (trail # <<>> /\ trail[Len(trail)].res = "ok")
              /\ ret.kind = "workbook" => (ret.book = disk /\ wb = disk)
              /\ ret.kind = "raise" <=>
                    (Cardinality(Attempts) = retries /\ FailedAttempts = Attempts)
              /\ (ret.kind = "raise" /\ retries >= 1) =>
                    ret.cause = trail[Len(trail)].res

\* the open failed after three attempts whose causes were not all the same
C14_Witness ==
    /\ OpenDone
    /\ ret.kind = "raise"
    /\ retries = 3
    /\ Len(trail) = 3
    /\ trail[1].res # trail[3].res
    /\ ret.cause = trail[3].res

-----------------------------------------------------------------------------
(* get_filled_days_for_employee *)

\* the first and the last day of the month of a date
MonthStart(dt) == ToOrdinal(YearOf(dt), MonthOf(dt), 1)
MonthEnd(dt) == ToOrdinal(YearOf(dt), MonthOf(dt), DaysInMonth(YearOf(dt), MonthOf(dt)))

\* variant: the absence column of the block is not looked at
RECURSIVE FilledFrom_ProjectColumnsOnly(_, _, _, _, _, _)
FilledFrom_ProjectColumnsOnly(ws, block, month, r, max_row, filled) ==
    IF r > max_row THEN filled
    ELSE LET dv == AsDate(CellValue(ws, r, DATE_COL))
         IN  IF dv = NoDate
             THEN FilledFrom_ProjectColumnsOnly(ws, block, month, r + 1, max_row, filled)
             ELSE IF YearOf(dv) # YearOf(month) \/ MonthOf(dv) # MonthOf(month)
             THEN FilledFrom_ProjectColumnsOnly(ws, block, month, r + 1, max_row, filled)
             ELSE IF \E c \in block.start_col..(block.start_col + block.width - 2) :
                        IsFilled(CellValue(ws, r, c))
             THEN FilledFrom_ProjectColumnsOnly(ws, block, month, r + 1, max_row,
                                                filled \cup {dv})
             ELSE FilledFrom_ProjectColumnsOnly(ws, block, month, r + 1, max_row, filled)

\* the loop over the date rows: the dates of the month with a filled block cell
RECURSIVE FilledFrom(_, _, _, _, _, _)
FilledFrom(ws, block, month, r, max_row, filled) ==
    IF r > max_row THEN filled
    ELSE LET dv == AsDate(CellValue(ws, r, DATE_COL))
         IN  IF dv = NoDate
             THEN FilledFrom(ws, block, month, r + 1, max_row, filled)
             ELSE IF YearOf(dv) # YearOf(month) \/ MonthOf(dv) # MonthOf(month)
             THEN FilledFrom(ws, block, month, r + 1, max_row, filled)
             ELSE IF \E c \in block.start_col..(block.start_col + block.width - 1) :
                        IsFilled(CellValue(ws, r, c))
             THEN FilledFrom(ws, block, month, r + 1, max_row, filled \cup {dv})
             ELSE FilledFrom(ws, block, month, r + 1, max_row, filled)

\* the try block of get_filled_days_for_employee on the opened workbook
FilledDays(book, emp, month) ==
    LET sn == GetMonthSheet(book, month)
    IN  IF sn = NoSheet THEN {}
        ELSE LET block == FindEmployeeBlock(book[sn], emp)
             IN  IF block = NoBlock THEN {}
                 ELSE FilledFrom(book[sn], block, month, DATE_FIRST_ROW,
                                 MaxRow(book[sn]), {})

RetDates(dates) == [kind |-> "dates", ok |-> 0, fail |-> 0, lists |-> <<>>, dates |-> dates]

\* values a cell of an employee block may hold
FillValues ==
    { Str(<<>>), Str(<<" ">>), Str(<<"U">>), PyFloat(0), PyInt(0), PyFloat(35), PyInt(7) }

ScanRows == DATE_FIRST_ROW..(DATE_FIRST_ROW + 5)

ScanFills == { {}, { <<DATE_FIRST_ROW + 1, 7, PyFloat(70)>>, <<DATE_FIRST_ROW, 9, Str(<<"K">>)>> } }

ScanSheet(fill) ==
    [cells |-> Cells(MarchHeader \cup ScanDates \cup fill),
     merges |-> {Merge(HEADER_ROW, HEADER_ROW, 6, 8)}]

\* workbooks whose March sheet holds one more value in one cell of the blocks
ScanBooks ==
    { [sn \in {"Februar", alias} |->
          IF sn = "Februar" THEN FebruarySheet
          ELSE ScanSheet({t \in base : <<t[1], t[2]>> # <<r, c>>} \cup {<<r, c, v>>})] :
        alias \in {"März", "Maerz"}, base \in ScanFills,
        r \in ScanRows, c \in 6..9, v \in FillValues }

FilledEmps == { Str(<<" ","m","a","x">>), Str(<<"E","v","a">>), Str(<<"B","o","b">>), Str(<<" ">>) }
FilledMonths == { D(2, 1), D(3, 1), ToOrdinal(2025, 3, 1), D(4, 1) }

InitFilled ==
    /\ disk \in ScanBooks
    /\ book0 = disk
    /\ pc = "idle"
    /\ call = NoCall
    /\ wb = NoBook
    /\ tries = 0
    /\ cur = NoDate
    /\ ok = 0
    /\ fail = 0
    /\ exc = "none"
    /\ ret = NoRet
    /\ trail = <<>>
    /\ disk0 = disk
    /\ first = NoFirst
    /\ ncalls = 0
    /\ probe = <<>>
    /\ retries = DEFAULT_RETRIES
    /\ last_err = NoError
    /\ form = State0

\* get_filled_days_for_employee, from the call to the return or the raise; the
\* workbook opens within the retries or it does not
GetFilledDays ==
    /\ pc = "idle"
    /\ ncalls < 1
    /\ \E e \in FilledEmps, month \in FilledMonths, opens \in BOOLEAN :
          /\ call' = [NoCall EXCEPT !.emp = e, !.mode = "FILLED", !.d_from = month]
          /\ IF StripOrEmpty(e) = <<>>
             THEN /\ ret' = RetDates({})
                  /\ exc' = "none"
                  /\ trail' = <<>>
             ELSE IF ~opens
             THEN /\ ret' = RetRaise
                  /\ exc' = "open"
                  /\ trail' = <<>>
             ELSE /\ ret' = RetDates(FilledDays(disk, StripOrEmpty(e), month))
                  /\ exc' = "none"
                  /\ trail' = <<Ev("open", NoDate, ""), Ev("close", NoDate, "")>>
    /\ pc' = "done"
    /\ ncalls' = ncalls + 1
    /\ UNCHANGED <<form, disk, book0, wb, tries, cur, ok, fail, disk0, first, probe, retries,
                   last_err>>

NextFilled == GetFilledDays

SpecFilled == InitFilled /\ [][NextFilled]_vars

\* the operation ran on a workbook that could be opened, for a name that is not blank
FilledDone ==
    /\ pc = "done"
    /\ call.mode = "FILLED"
    /\ exc = "none"
    /\ StripOrEmpty(call.emp) # <<>>

\* a cell is empty when it holds None, the empty string or a numeric zero
EmptyCell(v) == v = None \/ v = Str(<<>>) \/ (v.k \in {"int", "float"} /\ v.n = 0)

\* C16: filled_dates returns exactly the dates d such that some date row holds d,
\* d is in the target month of the target year and some cell of the employee's
\* block in that row is not empty (None, "" and numeric zero are empty); the
\* result is the empty set, not an error, when the month sheet or the block is
\* not resolved.
C16_FilledDates ==
    FilledDone =>
        LET month == call.d_from
            sn == GetMonthSheet(disk, month)
            block == IF sn = NoSheet THEN NoBlock
                     ELSE FindEmployeeBlock(disk[sn], StripOrEmpty(call.emp))
        IN  /\ ret.kind = "dates"
            /\ (sn = NoSheet \/ block = NoBlock) => ret.dates = {}
            /\ (sn # NoSheet /\ block # NoBlock) =>
                  ret.dates =
                    { d \in MonthStart(month)..MonthEnd(month) :
                        \E r \in DATE_FIRST_ROW..MaxRow(disk[sn]) :
                            /\ AsDate(CellValue(disk[sn], r, DATE_COL)) = d
                            /\ \E c \in block.start_col..AbsCol(block) :
                                  ~EmptyCell(CellValue(disk[sn], r, c)) }

\* the result holds a date, and a date row of the target month whose block holds
\* nothing but a numeric zero is left out
C16_Witness ==
    /\ FilledDone
    /\ ret.kind = "dates"
    /\ ret.dates # {}
    /\ LET ws == disk[GetMonthSheet(disk, call.d_from)]
           block == FindEmployeeBlock(ws, StripOrEmpty(call.emp))
       IN  \E r \in ScanRows :
              /\ AsDate(CellValue(ws, r, DATE_COL)) \in MonthStart(call.d_from)..MonthEnd(call.d_from)
              /\ AsDate(CellValue(ws, r, DATE_COL)) \notin ret.dates
              /\ \E c \in block.start_col..AbsCol(block) :
                    CellValue(ws, r, c).k \in {"int", "float"}

-----------------------------------------------------------------------------
(* The form (src/app.py): its state, its handlers and the calls it makes   *)

\* hours in tenths of an hour
H1 == 35
H2 == 70

MaxSaves == 1

\* self.emps, self.projs, self.abss: the lists the tiles are built from
AppEmps == { <<"M","a","x">>, <<"E","v","a">> }
AppProjs == { <<"M","O","I","A">>, <<"D","i","E">> }
AppAbss == { <<"U">> }

\* the days of the calendar that are clicked, and the months it is moved over
ClickDays == {1, 4}
FormFirstMonth == D(2, 1)
FormLastMonth == D(3, 1)

FormBooks == {BookA, BookB}

\* what opening or saving the file does during a write_range call
IoOutcomes == {"ok", "open", "save"}

\* the element of a set of one element
TheOne(S) == CHOOSE x \in S : TRUE

\* the loop of write_range over the dates from day to d_to
RECURSIVE WriteDays(_, _, _, _, _)
WriteDays(book, c, day, n_ok, n_fail) ==
    IF day > DTo(c)
    THEN [raised |-> FALSE, ok |-> n_ok, fail |-> n_fail, book |-> book]
    ELSE IF IsWorkday(day)
    THEN TheOne({ IF r.raised
                  THEN [raised |-> TRUE, ok |-> n_ok, fail |-> n_fail, book |-> book]
                  ELSE WriteDays(r.book, c, day + 1,
                                 IF r.success THEN n_ok + 1 ELSE n_ok,
                                 IF r.success THEN n_fail ELSE n_fail + 1) :
                  r \in {WriteOneDay(book, day, EmpOf(c), c.mode, ProjOf(c), c.hrs,
                                     AbsTypeOf(c))} })
    ELSE WriteDays(book, c, day + 1, n_ok, n_fail)

\* write_range from the call to the return or the raise: the counts and the file
WriteRange(book, c, io) ==
    IF io = "open"
    THEN [raised |-> TRUE, ok |-> 0, fail |-> 0, book |-> book]
    ELSE LET r == WriteDays(book, c, DFrom(c), 0, 0)
         IN  IF r.raised \/ io = "save"
             THEN [raised |-> TRUE, ok |-> 0, fail |-> 0, book |-> book]
             ELSE [r EXCEPT !.book = SaveImage(r.book)]

\* _refresh_filled_days: an exception of the io gives the empty set
RefreshFilledDays(s, book, opens) ==
    IF s.emp = <<>> THEN {}
    ELSE IF Strip(s.emp) = <<>> THEN {}
    ELSE IF ~opens THEN {}
    ELSE FilledDays(book, Strip(s.emp), s.month)

FormEv(c, res) == [op |-> "write_range", dt |-> NoDate, res |-> res, args |-> c]

InitForm ==
    /\ disk \in FormBooks
    /\ book0 = disk
    /\ pc = "idle"
    /\ call = NoCall
    /\ wb = NoBook
    /\ tries = 0
    /\ cur = NoDate
    /\ ok = 0
    /\ fail = 0
    /\ exc = "none"
    /\ ret = NoRet
    /\ trail = <<>>
    /\ disk0 = disk
    /\ first = NoFirst
    /\ ncalls = 0
    /\ probe = <<>>
    /\ retries = DEFAULT_RETRIES
    /\ last_err = NoError
    /\ form = State0

\* the form is used until it has made MaxSaves saves
SessionOpen == ncalls < MaxSaves

PickEmp ==
    /\ SessionOpen
    /\ \E x \in AppEmps, opens \in BOOLEAN :
          form' = [form EXCEPT !.emp = x,
                      !.filled_days = RefreshFilledDays([form EXCEPT !.emp = x], disk, opens)]
    /\ UNCHANGED <<disk, book0, pc, call, wb, tries, cur, ok, fail, exc, ret, trail,
                   disk0, first, ncalls, probe, retries, last_err>>

\* variant: the mode is switched and the picks of the other mode are kept
SetMode_KeepsPicks ==
    /\ SessionOpen
    /\ \E m \in {"PROJ", "ABS"} : form' = [form EXCEPT !.mode = m]
    /\ UNCHANGED <<disk, book0, pc, call, wb, tries, cur, ok, fail, exc, ret, trail,
                   disk0, first, ncalls, probe, retries, last_err>>

SetMode ==
    /\ SessionOpen
    /\ \E m \in {"PROJ", "ABS"} :
          form' = IF m = "PROJ"
                  THEN [form EXCEPT !.mode = m, !.abs_type = <<>>]
                  ELSE [form EXCEPT !.mode = m, !.proj = <<>>, !.hrs = None]
    /\ UNCHANGED <<disk, book0, pc, call, wb, tries, cur, ok, fail, exc, ret, trail,
                   disk0, first, ncalls, probe, retries, last_err>>

PickProj ==
    /\ SessionOpen
    /\ \E x \in AppProjs :
          form' = [form EXCEPT !.mode = "PROJ", !.proj = x, !.abs_type = <<>>]
    /\ UNCHANGED <<disk, book0, pc, call, wb, tries, cur, ok, fail, exc, ret, trail,
                   disk0, first, ncalls, probe, retries, last_err>>

\* returns at once unless a project is picked in project mode
PickHours ==
    /\ SessionOpen
    /\ form.mode = "PROJ"
    /\ form.proj # <<>>
    /\ \E h \in {H1, H2} : form' = [form EXCEPT !.hrs = PyFloat(h)]
    /\ UNCHANGED <<disk, book0, pc, call, wb, tries, cur, ok, fail, exc, ret, trail,
                   disk0, first, ncalls, probe, retries, last_err>>

\* returns at once unless the mode is absence
PickAbs ==
    /\ SessionOpen
    /\ form.mode = "ABS"
    /\ \E x \in AppAbss : form' = [form EXCEPT !.abs_type = x]
    /\ UNCHANGED <<disk, book0, pc, call, wb, tries, cur, ok, fail, exc, ret, trail,
                   disk0, first, ncalls, probe, retries, last_err>>

ClickDay ==
    /\ SessionOpen
    /\ \E day \in ClickDays :
          LET clicked == ToOrdinal(YearOf(form.month), MonthOf(form.month), day)
          IN  form' = IF form.d_from = NoDate
                      THEN [form EXCEPT !.d_from = clicked, !.d_to = NoDate]
                      ELSE IF form.d_to = NoDate
                      THEN [form EXCEPT !.d_to = clicked]
                      ELSE [form EXCEPT !.d_from = clicked, !.d_to = NoDate]
    /\ UNCHANGED <<disk, book0, pc, call, wb, tries, cur, ok, fail, exc, ret, trail,
                   disk0, first, ncalls, probe, retries, last_err>>

PrevMonth ==
    /\ SessionOpen
    /\ form.month > FormFirstMonth
    /\ \E opens \in BOOLEAN :
          LET moved == [form EXCEPT !.month = MonthStart(MonthStart(form.month) - 1),
                                    !.d_from = NoDate, !.d_to = NoDate]
          IN  form' = [moved EXCEPT !.filled_days = RefreshFilledDays(moved, disk, opens)]
    /\ UNCHANGED <<disk, book0, pc, call, wb, tries, cur, ok, fail, exc, ret, trail,
                   disk0, first, ncalls, probe, retries, last_err>>

NextMonth ==
    /\ SessionOpen
    /\ form.month < FormLastMonth
    /\ \E opens \in BOOLEAN :
          LET day28 == ToOrdinal(YearOf(form.month), MonthOf(form.month), 28)
              moved == [form EXCEPT !.month = MonthStart(day28 + 4),
                                    !.d_from = NoDate, !.d_to = NoDate]
          IN  form' = [moved EXCEPT !.filled_days = RefreshFilledDays(moved, disk, opens)]
    /\ UNCHANGED <<disk, book0, pc, call, wb, tries, cur, ok, fail, exc, ret, trail,
                   disk0, first, ncalls, probe, retries, last_err>>

ResetState(s) ==
    [s EXCEPT !.emp = <<>>, !.mode = "", !.proj = <<>>, !.hrs = None, !.abs_type = <<>>,
              !.d_from = NoDate, !.d_to = NoDate, !.filled_days = {}]

Reset ==
    /\ SessionOpen
    /\ form' = ResetState(form)
    /\ UNCHANGED <<disk, book0, pc, call, wb, tries, cur, ok, fail, exc, ret, trail,
                   disk0, first, ncalls, probe, retries, last_err>>

\* variant: the hours are not looked at
SaveValid_HoursUnchecked(s) ==
    /\ s.emp # <<>>
    /\ s.d_from # NoDate
    /\ s.mode \in {"PROJ", "ABS"}
    /\ s.mode = "PROJ" => s.proj # <<>>
    /\ s.mode # "PROJ" => s.abs_type # <<>>

\* the checks at the head of _save: each one that fails shows a hint and returns
SaveValid(s) ==
    /\ s.emp # <<>>
    /\ s.d_from # NoDate
    /\ s.mode \in {"PROJ", "ABS"}
    /\ s.mode = "PROJ" =>
          /\ s.proj # <<>>
          /\ s.hrs # None
          /\ s.hrs.n = H1 \/ s.hrs.n = H2
    /\ s.mode # "PROJ" => s.abs_type # <<>>

SaveFrom(s) ==
    LET d2 == IF s.d_to # NoDate THEN s.d_to ELSE s.d_from
    IN  IF d2 < s.d_from THEN d2 ELSE s.d_from

SaveTo(s) ==
    LET d2 == IF s.d_to # NoDate THEN s.d_to ELSE s.d_from
    IN  IF d2 < s.d_from THEN s.d_from ELSE d2

\* the arguments of the write_range call of _save
SaveCall(s) ==
    [emp |-> Str(s.emp), mode |-> s.mode, proj |-> Str(s.proj),
     hrs |-> IF s.hrs = None \/ s.hrs.n = 0 THEN PyFloat(0) ELSE ToFloat(s.hrs),
     abs_type |-> Str(s.abs_type), d_from |-> SaveFrom(s), d_to |-> SaveTo(s)]

\* the arguments of the write_range call of the rest booking
RestCall(s, pick) ==
    [emp |-> Str(s.emp), mode |-> "PROJ", proj |-> Str(pick), hrs |-> PyFloat(H1),
     abs_type |-> Str(<<>>), d_from |-> SaveFrom(s), d_to |-> SaveTo(s)]

\* the answers to the rest question and the projects the RestDialog offers
RestAnswers(s) ==
    { [answer |-> a, pick |-> <<>>] : a \in {"no", "skip"} }
    \cup { [answer |-> "pick", pick |-> p] :
             p \in {q \in AppProjs : Lower(Strip(q)) # Lower(Strip(s.proj))} }

Save ==
    /\ SessionOpen
    /\ SaveValid(form)
    /\ \E io1 \in IoOutcomes, opens \in BOOLEAN, rest \in RestAnswers(form),
          io2 \in IoOutcomes :
          \E c1 \in {SaveCall(form)}, c2 \in {RestCall(form, rest.pick)} :
          \E r1 \in {WriteRange(disk, c1, io1)} :
          \E r2 \in {WriteRange(r1.book, c2, io2)},
             marked \in {[form EXCEPT
                            !.filled_days = RefreshFilledDays(form, r1.book, opens)]} :
              IF r1.raised
              THEN /\ trail' = Append(trail, FormEv(c1, "raise"))
                   /\ UNCHANGED <<form, disk>>
              ELSE IF r1.ok = 0
              THEN /\ trail' = Append(trail, FormEv(c1, "value"))
                   /\ disk' = r1.book
                   /\ UNCHANGED form
              ELSE IF form.mode = "PROJ" /\ form.hrs.n = H1 /\ rest.answer = "pick"
              THEN IF r2.raised
                   THEN /\ trail' = trail \o <<FormEv(c1, "value"), FormEv(c2, "raise")>>
                        /\ disk' = r1.book
                        /\ form' = marked
                   ELSE /\ trail' = trail \o <<FormEv(c1, "value"), FormEv(c2, "value")>>
                        /\ disk' = r2.book
                        /\ form' = ResetState(marked)
              ELSE /\ trail' = Append(trail, FormEv(c1, "value"))
                   /\ disk' = r1.book
                   /\ form' = ResetState(marked)
    /\ ncalls' = ncalls + 1
    /\ UNCHANGED <<book0, pc, call, wb, tries, cur, ok, fail, exc, ret, disk0, first,
                   probe, retries, last_err>>

NextForm ==
    \/ PickEmp
    \/ SetMode
    \/ PickProj
    \/ PickHours
    \/ PickAbs
    \/ ClickDay
    \/ PrevMonth
    \/ NextMonth
    \/ Reset
    \/ Save

SpecForm == InitForm /\ [][NextForm]_vars

\* the write_range calls the form has made
FormCalls == {i \in 1..Len(trail) : trail[i].op = "write_range"}

\* C15: every write_range call the form makes in project mode passes hours 3.5
\* or 7.0, a non-empty employee and a non-empty project; every call it makes in
\* absence mode passes a non-empty absence type.
C15_SaveArguments ==
    \A i \in FormCalls :
        LET c == trail[i].args
        IN  /\ c.mode \in {"PROJ", "ABS"}
            /\ c.mode = "PROJ" =>
                  /\ c.hrs.k = "float"
                  /\ c.hrs.n \in {35, 70}
                  /\ c.emp.s # <<>>
                  /\ c.proj.s # <<>>
            /\ c.mode = "ABS" => c.abs_type.s # <<>>

\* a save booked 3.5 hours and then the rest on another project, and both were
\* written to the file
C15_Witness ==
    /\ Len(trail) = 2
    /\ trail[1].res = "value" /\ trail[2].res = "value"
    /\ trail[1].args.proj # trail[2].args.proj
    /\ trail[2].args.hrs = PyFloat(35)
    /\ disk # book0

-----------------------------------------------------------------------------
(* The cells a successful _write_one_day leaves alone *)

\* the step is a _write_one_day that returned True
DayWrote ==
    /\ pc = "loop"
    /\ Len(trail') = Len(trail) + 1
    /\ trail'[Len(trail')].op = "day"
    /\ trail'[Len(trail')].res = "ok"

\* the cells the write for the date cur may assign to
WriteTargets ==
    LET ws == wb[GetMonthSheet(wb, cur)]
        row == FindDateRow(ws, cur)
        block == FindEmployeeBlock(ws, EmpOf(call))
    IN  IF call.mode = "ABS"
        THEN {<<row, c>> : c \in block.start_col..AbsCol(block)}
        ELSE {<<row, FindProjectCol(ws, block, ProjOf(call))>>, <<row, AbsCol(block)>>}

\* C21: a successful write_one_day changes only cells of the resolved date row
\* inside the resolved block, in project mode only the project column and the
\* absence column, so that the other project columns of the row keep their
\* values; other rows, other blocks, the header rows, the date column, the
\* merges and the other sheets stay as they are.
C21_WriteFrame ==
    [][DayWrote =>
        /\ DOMAIN wb' = DOMAIN wb
        /\ \A sn \in DOMAIN wb :
              /\ wb'[sn].merges = wb[sn].merges
              /\ \A x \in ChangedCells(wb[sn], wb'[sn]) :
                    /\ sn = GetMonthSheet(wb, cur)
                    /\ x \in WriteTargets
                    /\ x[1] >= DATE_FIRST_ROW
                    /\ x[2] >= FIRST_EMP_COL
                    /\ AsDate(CellValue(wb[sn], x[1], DATE_COL)) = cur
    ]_vars

\* a second call wrote hours under one project into a row where the call before
\* it had written hours under another project, and both are in the row
C21_Witness ==
    /\ JustWrote
    /\ call.mode = "PROJ"
    /\ ncalls = 2
    /\ LET c == FindProjectCol(wb[LastSheet], LastBlock, ProjOf(call))
       IN  /\ CellValue(wb[LastSheet], LastRow, c).k = "float"
           /\ \E o \in LastBlock.start_col..(AbsCol(LastBlock) - 1) :
                 /\ o # c
                 /\ CellValue(wb[LastSheet], LastRow, o).k = "float"
                 /\ CellValue(book0[LastSheet], LastRow, o) = None
                 /\ CellValue(book0[LastSheet], LastRow, c) = None

-----------------------------------------------------------------------------
(* Header rows whose first merge begins before the first employee column *)

\* the column of the first header cell: at the first employee column, or one or
\* two columns to its left
MergeFirstCols == (FIRST_EMP_COL - 2)..FIRST_EMP_COL

MergeRows ==
    { <<Entry(l1, w1), Entry(Str(<<"E","V","A">>), w2), Entry(l3, w3)>> :
        l1 \in { Str(<<"M","a","x"," ">>), None },
        l3 \in { Str(<<"B","o","b">>), Str(<<"m","a","x">>) },
        w1 \in 1..3, w2 \in 1..3, w3 \in 1..3 }

\* _find_employee_block is evaluated on such a header row
ScanMerges ==
    /\ probe = <<>>
    /\ \E entries \in MergeRows, first_col \in MergeFirstCols, emp \in ScanNames :
          LET ws == HeaderSheet(entries, first_col)
          IN  probe' = [entries |-> entries, first_col |-> first_col, ws |-> ws,
                        emp |-> emp, block |-> FindEmployeeBlock(ws, emp)]
    /\ UNCHANGED <<form, disk, book0, pc, call, wb, tries, cur, ok, fail, exc, ret, trail,
                   disk0, first, ncalls, retries, last_err>>

NextMerges == ScanMerges

SpecMerges == InitScan /\ [][NextMerges]_vars

\* C22: every block _find_employee_block returns covers exactly the columns of
\* the header cell or merge that carries the matched label: its start column is
\* the leftmost column of the merge and start column + width - 1 the rightmost,
\* also for a merge that begins to the left of column 6 and extends into it.
C22_BlockCoversMerge ==
    (Probed /\ probe.block # NoBlock) =>
        \E i \in Hits :
            /\ probe.block.start_col = EntryCol(probe.entries, probe.first_col, i)
            /\ AbsCol(probe.block)
                  = EntryCol(probe.entries, probe.first_col, i) + probe.entries[i].width - 1

-----------------------------------------------------------------------------
(* Runs on sheets whose subheader row has cells without a label *)

\* what a project column holds in the subheader row: nothing, a blank, a label
BlankSubs == { None, Str(<<" ">>), Str(<<"M","O","I","A">>) }

\* March with the two project columns of the first block labelled s6 and s7
BlankSheet(s6, s7) ==
    [cells |-> Cells(
        { <<HEADER_ROW, 6, Str(<<"M","a","x"," ">>)>>,
          <<HEADER_ROW, 9, Str(<<"E","V","A">>)>>,
          <<SUBHEADER_ROW, 8, Str(<<"A","b","w">>)>>,
          <<SUBHEADER_ROW, 9, Str(<<"A","b","w">>)>> }
        \cup { <<SUBHEADER_ROW, 6 + i, (<<s6, s7>>)[i + 1]>> :
                 i \in {j \in 0..1 : (<<s6, s7>>)[j + 1] # None} }
        \cup MarchDates(FALSE, TRUE)
        \cup FillOne),
     merges |-> {Merge(HEADER_ROW, HEADER_ROW, 6, 8)}]

BlankBooks == { [sn \in {"März"} |-> BlankSheet(s6, s7)] : s6 \in BlankSubs, s7 \in BlankSubs }

InitBlank ==
    /\ disk \in BlankBooks
    /\ book0 = disk
    /\ pc = "idle"
    /\ call = NoCall
    /\ wb = NoBook
    /\ tries = 0
    /\ cur = NoDate
    /\ ok = 0
    /\ fail = 0
    /\ exc = "none"
    /\ ret = NoRet
    /\ trail = <<>>
    /\ disk0 = disk
    /\ first = NoFirst
    /\ ncalls = 0
    /\ probe = <<>>
    /\ retries = DEFAULT_RETRIES
    /\ last_err = NoError
    /\ form = State0

\* calls in project mode without a project name
BlankArgs ==
    { [emp |-> e, mode |-> "PROJ", proj |-> p, hrs |-> h, abs_type |-> Str(<<>>),
       d_from |-> a, d_to |-> b] :
        e \in EmpArgs, p \in { None, Str(<<>>), Str(<<" ">>) },
        h \in { PyFloat(H1), PyFloat(H2) },
        a \in DayWindowStart..(DayWindowStart + DayWindowDays - 1),
        b \in DayWindowStart..(DayWindowStart + DayWindowDays - 1) }

WriteRangeCallBlank ==
    /\ pc = "idle"
    /\ ncalls < 1
    /\ \E c \in BlankArgs : Enter(c)
    /\ ncalls' = ncalls + 1
    /\ first' = NoFirst
    /\ UNCHANGED <<form, disk, book0, probe, retries, last_err>>

NextBlank ==
    \/ WriteRangeCallBlank
    \/ Run

SpecBlank == InitBlank /\ [][NextBlank]_vars

\* C23: in project mode write_range with an empty or whitespace-only project
\* name writes no cell and counts every attempted weekday as a failure, whatever
\* the subheader row of the employee's block holds, empty cells included.
C23_EmptyProjectFails ==
    (pc \in {"loop", "close", "done"} /\ call.mode = "PROJ" /\ ProjOf(call) = <<>>) =>
        /\ \A i \in DayIndexes : trail[i].res = "fail"
        /\ pc \in {"loop", "close"} => (wb = disk0 /\ ok = 0)
        /\ pc = "done" => disk = disk0
        /\ Returned => (ret.ok = 0 /\ ret.fail = Cardinality(RangeWeekdays))

-----------------------------------------------------------------------------
(* write_range followed by get_filled_days_for_employee *)

MarkArgs ==
    { [emp |-> e, mode |-> "PROJ", proj |-> p, hrs |-> h, abs_type |-> Str(<<>>),
       d_from |-> a, d_to |-> b] :
        e \in EmpArgs, p \in ProjArgs, h \in { PyFloat(H1), PyFloat(H2) },
        a \in DayWindowStart..(DayWindowStart + DayWindowDays - 1),
        b \in DayWindowStart..(DayWindowStart + DayWindowDays - 1) }
    \cup
    { [emp |-> e, mode |-> "ABS", proj |-> Str(<<>>), hrs |-> PyFloat(0), abs_type |-> t,
       d_from |-> a, d_to |-> b] :
        e \in EmpArgs, t \in { Str(<<" ","U">>), Str(<<" ">>) },
        a \in DayWindowStart..(DayWindowStart + DayWindowDays - 1),
        b \in DayWindowStart..(DayWindowStart + DayWindowDays - 1) }

MarkMonths == { D(2, 1), D(3, 1) }

WriteRangeCallMark ==
    /\ pc = "idle"
    /\ ncalls < 1
    /\ \E c \in MarkArgs : Enter(c)
    /\ ncalls' = ncalls + 1
    /\ first' = NoFirst
    /\ UNCHANGED <<form, disk, book0, probe, retries, last_err>>

\* get_filled_days_for_employee: the set it returns, or the exception of the open
FilledDaysResult(book, emp, month, opens) ==
    IF StripOrEmpty(emp) = <<>> THEN RetDates({})
    ELSE IF ~opens THEN RetRaise
    ELSE RetDates(FilledDays(book, StripOrEmpty(emp), month))

\* after write_range has returned its counts the caller reads the filled days of
\* the employee, as _save does through _refresh_filled_days
ReadBack ==
    /\ pc = "done"
    /\ ret.kind = "value"
    /\ probe = <<>>
    /\ \E month \in MarkMonths, opens \in BOOLEAN :
          probe' = [kind |-> "filled", call |-> call, month |-> month, opens |-> opens,
                    days |-> {trail[i].dt : i \in {j \in DayIndexes : trail[j].res = "ok"}},
                    ret |-> FilledDaysResult(disk, call.emp, month, opens),
                    marking |-> RefreshFilledDays(
                                   [State0 EXCEPT !.emp = call.emp.s, !.month = month],
                                   disk, opens)]
    /\ UNCHANGED <<form, disk, book0, pc, call, wb, tries, cur, ok, fail, exc, ret, trail,
                   disk0, first, ncalls, retries, last_err>>

NextMark ==
    \/ WriteRangeCallMark
    \/ Run
    \/ ReadBack

SpecMark == Init /\ [][NextMark]_vars

ReadDone == probe # <<>> /\ probe.kind = "filled"

\* the days of the month read that the write_range call reported as written
MarkedDays == {d \in probe.days : MonthStart(d) = probe.month}

\* the hours are 3.5 or 7.0
BooksHours(c) == c.mode = "PROJ" /\ c.hrs.k = "float" /\ c.hrs.n \in {H1, H2}

-----------------------------------------------------------------------------
(* The selections of the form *)

\* C25: after any sequence of handlers of the form a picked project or picked
\* hours imply the project mode, picked hours imply a picked project, a picked
\* absence type implies the absence mode, and an end date implies a start date.
C25_SelectionsExclusive ==
    /\ (form.proj # <<>> \/ form.hrs # None) => form.mode = "PROJ"
    /\ form.hrs # None => form.proj # <<>>
    /\ form.abs_type # <<>> => form.mode = "ABS"
    /\ form.d_to # NoDate => form.d_from # NoDate

\* in another month than the first, an employee, a project, hours and two days
\* are picked
C25_Witness ==
    /\ form.mode = "PROJ"
    /\ form.hrs # None
    /\ form.d_to # NoDate
    /\ form.emp # <<>>
    /\ form.month # State0.month

=============================================================================
